---- MODULE Spec2Model ----
(***************************************************************************)
(* Build-plan generation and file materialization of wtc-project:          *)
(* src/project_manager.py (path sandbox) and src/file_generator.py (plan   *)
(* extractor, plan augmenter, build plan generator, file materializer,     *)
(* stack inference, packager), and the destination directory of an         *)
(* auto-build in src/greenpt_ui.py.                                        *)
(*                                                                         *)
(* Representation of text.  A path string is the sequence of the pieces    *)
(* between its "/" characters ("a/b" is <<"a","b">>, "/a" is <<"","a">>,   *)
(* "a/" is <<"a","">>, "" is <<"">>).  A raw model reply is a sequence of  *)
(* lexical chunks (see the plan extractor section).                        *)
(***************************************************************************)
EXTENDS Integers, Sequences, FiniteSets, TLC

VARIABLES
    \* ensure_safe_path, called on its own
    base_dir, relative_path, sp_pc, sp_out,
    \* write_files_from_plan: arguments, locals, position, outcome
    w_plan, w_base, w_cb, w_pc, idx, total, target_path, content, created_files,
    w_error,
    \* the world around write_files_from_plan: the file system, and the logs
    \* of the mkdir, write_text, chat and progress_callback calls made
    fs_dirs, fs_files, mkdir_calls, write_calls, chat_calls, cb_calls,
    \* ensure_dockerfile_entry, called once and then again on its own result:
    \* the plan as passed, the caller's list object, what each call returned,
    \* and how often Stack Inference has run
    a_input, a_plan, a_pc, a_once, a_twice, a_inferred,
    \* extract_json_array, called on its own
    raw_text, x_pc, x_out,
    \* generate_build_plan: argument, locals, position, outcome, and the logs
    \* of the prompts sent, the replies received and the Plan Augmenter runs
    max_retries, attempt, plan_text, last_error, last_raw, g_pc, g_out,
    g_prompts, g_replies, g_augmented,
    \* package_directory: the directory, the tree on disk, what was returned,
    \* and the files read back from the returned archive
    pk_dir, pk_dirs, pk_files, pk_pc, zip_name, zip_entries, pk_extracted,
    \* the UI's auto-build: the wall clock, the directories under the
    \* generated root, and the builds started so far
    clock, gen_dirs, builds,
    \* _collect_stack_hints, called on its own
    h_plan, h_pc, h_out,
    \* call_greenpt_chat: the key of the configuration, the loop and its requests
    c_key, c_max_retries, c_attempt, c_pc, c_out, c_requests, c_sleeps, c_response,
    \* greenpt_ui.main: the active project key of the session over the reruns
    active_project, reruns, first_slug,
    \* greenpt_ui.main: one auto-build after another in a session, and the last_build record of the project
    ab_pc, ab_steps, ab_plan, ab_dir, ab_dirs, ab_time, ab_error, ab_prev, ab_runs, last_build

pathVars == <<base_dir, relative_path, sp_pc, sp_out>>
writeVars == <<w_plan, w_base, w_cb, w_pc, idx, total, target_path, content,
               created_files, w_error, fs_dirs, fs_files, mkdir_calls,
               write_calls, chat_calls, cb_calls>>
augVars == <<a_input, a_plan, a_pc, a_once, a_twice, a_inferred>>
extractVars == <<raw_text, x_pc, x_out>>
genVars == <<max_retries, attempt, plan_text, last_error, last_raw, g_pc, g_out,
             g_prompts, g_replies, g_augmented>>
packVars == <<pk_dir, pk_dirs, pk_files, pk_pc, zip_name, zip_entries,
              pk_extracted>>
buildVars == <<clock, gen_dirs, builds>>
hintVars == <<h_plan, h_pc, h_out>>
chatVars == <<c_key, c_max_retries, c_attempt, c_pc, c_out, c_requests, c_sleeps, c_response>>
slugVars == <<active_project, reruns, first_slug>>
autoVars == <<ab_pc, ab_steps, ab_plan, ab_dir, ab_dirs, ab_time, ab_error, ab_prev, ab_runs, last_build>>
vars == <<pathVars, writeVars, augVars, extractVars, genVars, packVars, buildVars, hintVars, chatVars, slugVars, autoVars>>

\* What the actions of one component leave alone
notPathVars == <<writeVars, augVars, extractVars, genVars, packVars, buildVars, hintVars, chatVars, slugVars, autoVars>>
notWriteVars == <<pathVars, augVars, extractVars, genVars, packVars, buildVars, hintVars, chatVars, slugVars, autoVars>>
notAugVars == <<pathVars, writeVars, extractVars, genVars, packVars, buildVars, hintVars, chatVars, slugVars, autoVars>>
notExtractVars == <<pathVars, writeVars, augVars, genVars, packVars, buildVars, hintVars, chatVars, slugVars, autoVars>>
notGenVars == <<pathVars, writeVars, augVars, extractVars, packVars, buildVars, hintVars, chatVars, slugVars, autoVars>>
notPackVars == <<pathVars, writeVars, augVars, extractVars, genVars, buildVars, hintVars, chatVars, slugVars, autoVars>>
notBuildVars == <<pathVars, writeVars, augVars, extractVars, genVars, packVars, hintVars, chatVars, slugVars, autoVars>>
notHintVars == <<pathVars, writeVars, augVars, extractVars, genVars, packVars, buildVars, chatVars, slugVars, autoVars>>
notChatVars == <<pathVars, writeVars, augVars, extractVars, genVars, packVars, buildVars, hintVars, slugVars, autoVars>>
notSlugVars == <<pathVars, writeVars, augVars, extractVars, genVars, packVars, buildVars, hintVars, chatVars, autoVars>>
notAutoVars == <<pathVars, writeVars, augVars, extractVars, genVars, packVars, buildVars, hintVars, chatVars, slugVars>>

----------------------------------------------------------------------------
(* Generic helpers *)

SeqsUpTo(S, n) == UNION {[1..k -> S] : k \in 1..n}

IsPrefix(p, q) == Len(p) <= Len(q) /\ SubSeq(q, 1, Len(p)) = p

Last(s) == s[Len(s)]

\* The members of s that are not in the set Drop, in order.
RECURSIVE Without(_, _)
Without(s, Drop) ==
    IF s = <<>> THEN <<>>
    ELSE IF Head(s) \in Drop THEN Without(Tail(s), Drop)
         ELSE <<Head(s)>> \o Without(Tail(s), Drop)

None == [k |-> "None"]

----------------------------------------------------------------------------
(* pathlib: Path(str), Path / Path, Path.resolve(), Path.parents, Path.name *)

\* The process's working directory, against which resolve() anchors a
\* relative path.
Cwd == <<"srv">>

\* Path(s): a leading "/" makes the path absolute; empty pieces (doubled or
\* trailing slashes) and "." pieces are dropped; ".." pieces are kept.
PathOf(s) ==
    [abs   |-> Len(s) >= 2 /\ s[1] = "",
     parts |-> Without(s, {"", "."})]

\* a / b: an absolute right operand replaces the left one.
PathJoin(a, b) ==
    IF b.abs THEN b ELSE [abs |-> a.abs, parts |-> a.parts \o b.parts]

\* Collapsing of ".." pieces, left to right; the parent of the root is the root.
RECURSIVE Collapse(_, _)
Collapse(done, rest) ==
    IF rest = <<>> THEN done
    ELSE IF Head(rest) = ".."
         THEN Collapse(IF done = <<>> THEN <<>> ELSE SubSeq(done, 1, Len(done) - 1),
                       Tail(rest))
         ELSE Collapse(Append(done, Head(rest)), Tail(rest))

\* p.resolve(): the absolute path with ".." collapsed (the trees modelled here
\* hold no symbolic links).
PathResolve(p) ==
    [abs   |-> TRUE,
     parts |-> Collapse(<<>>, IF p.abs THEN p.parts ELSE Cwd \o p.parts)]

\* p.parents: every proper ancestor of p.
PathParents(p) ==
    {[abs |-> p.abs, parts |-> SubSeq(p.parts, 1, n)] : n \in 0..(Len(p.parts) - 1)}

\* p.parent: the root is its own parent; the parent of "." is ".".
PathParent(p) ==
    IF p.parts = <<>> THEN p
    ELSE [abs |-> p.abs, parts |-> SubSeq(p.parts, 1, Len(p.parts) - 1)]

\* p.name
PathName(p) == IF p.parts = <<>> THEN "" ELSE Last(p.parts)

----------------------------------------------------------------------------
(* project_manager.ensure_safe_path *)

PathTraversalError(rel, base) ==
    [k |-> "ValueError", what |-> "outside", relative_path |-> rel, base_dir |-> base]

\* Variant: a target outside the base is clamped to the base
ensure_safe_path_clamped(base, rel) ==
    LET resolved_base == PathResolve(base)
        target   == PathResolve(PathJoin(base, rel))
    IN  IF resolved_base = target \/ resolved_base \in PathParents(target)
        THEN [ok |-> TRUE, value |-> target]
        ELSE [ok |-> TRUE,
              value |-> [abs |-> TRUE,
                         parts |-> Append(resolved_base.parts, "clamped")]]

ensure_safe_path_noeq(base, rel) ==
    LET resolved_base == PathResolve(base)
        target   == PathResolve(PathJoin(base, rel))
    IN  IF resolved_base \in PathParents(target)
        THEN [ok |-> TRUE, value |-> target]
        ELSE [ok |-> FALSE, error |-> PathTraversalError(rel, base)]

ensure_safe_path(base, rel) ==
    LET resolved_base == PathResolve(base)
        target   == PathResolve(PathJoin(base, rel))
    IN  IF resolved_base = target \/ resolved_base \in PathParents(target)
        THEN [ok |-> TRUE, value |-> target]
        ELSE [ok |-> FALSE, error |-> PathTraversalError(rel, base)]

----------------------------------------------------------------------------
(* Specification SpecPath: ensure_safe_path applied to bounded inputs *)

MaxRelLen == 4

RelPieces == {"", ".", "..", "etc", "passwd", "backend", "app.py", "foo"}

\* "//x" has its own root in POSIX and is left out.
RelStrings ==
    {s \in SeqsUpTo(RelPieces, MaxRelLen) : ~(Len(s) >= 3 /\ s[1] = "" /\ s[2] = "")}

\* /projects/foo, /projects/etc/../foo, and foo (relative to the working directory)
BaseStrings ==
    { <<"", "projects", "foo">>, <<"", "projects", "etc", "..", "foo">>, <<"foo">> }

PathIdle ==
    /\ base_dir = None
    /\ relative_path = None
    /\ sp_pc = "idle"
    /\ sp_out = None

InitPath ==
    /\ base_dir \in BaseStrings
    /\ relative_path \in RelStrings
    /\ sp_pc = "call"
    /\ sp_out = None

CallEnsureSafePath ==
    /\ sp_pc = "call"
    /\ sp_out' = ensure_safe_path(PathOf(base_dir), PathOf(relative_path))
    /\ sp_pc' = "returned"
    /\ UNCHANGED <<base_dir, relative_path>>
    /\ UNCHANGED notPathVars

----------------------------------------------------------------------------
(* JSON values and FileSpec mappings.  Every value is a record with a kind  *)
(* field k.  A dict is modelled by its four FileSpec keys; a key the dict   *)
(* does not hold has the value Missing.                                     *)

Missing == [k |-> "Missing"]

Str(x) == [k |-> "str", v |-> x]

FileSpec(path, type, description, instructions) ==
    [k |-> "dict", path |-> path, type |-> type,
     description |-> description, instructions |-> instructions]

\* spec.get(key, default) for key = "path", "type", "description", "instructions"
DictGet(value, default) == IF value = Missing THEN default ELSE value

----------------------------------------------------------------------------
(* The file system: fs_dirs is the set of directories, fs_files maps each   *)
(* regular file to its content; both are keyed by absolute part sequences.  *)

Prefixes(parts) == {SubSeq(parts, 1, n) : n \in 0..Len(parts)}

ProperPrefixes(parts) == {SubSeq(parts, 1, n) : n \in 0..(Len(parts) - 1)}

\* Path.mkdir(parents=True, exist_ok=True): an existing directory is left
\* alone; a regular file at the path or at one of its ancestors is an OSError;
\* otherwise the path and its missing ancestors are created.
MkdirFails(dirs, files, p) ==
    /\ p.parts \notin dirs
    /\ \E q \in Prefixes(p.parts) : q \in DOMAIN files

MkdirDirs(dirs, p) == dirs \cup Prefixes(p.parts)

\* Path.write_text(content): opening a directory, or a path whose parent is
\* no directory, for writing is an OSError; otherwise the file holds exactly
\* content afterwards.
WriteTextFails(dirs, files, p) ==
    \/ p.parts \in dirs
    \/ PathParent(p).parts \notin dirs

\* Variant: a file that exists keeps its content
WriteTextFiles_keep(files, p, text) ==
    [q \in DOMAIN files \cup {p.parts} |->
        IF q \in DOMAIN files THEN files[q] ELSE text]

WriteTextFiles(files, p, text) ==
    [q \in DOMAIN files \cup {p.parts} |-> IF q = p.parts THEN text ELSE files[q]]

----------------------------------------------------------------------------
(* file_generator.generate_file_content and write_files_from_plan *)

\* The prompt of generate_file_content: the FileSpec's fields with their
\* defaults, and the blueprint.
FilePrompt(spec) ==
    [path         |-> DictGet(spec.path, Str(<<"file.txt">>)),
     file_type    |-> DictGet(spec.type, Str(<<"config">>)),
     description  |-> DictGet(spec.description, Str(<<"">>)),
     instructions |-> DictGet(spec.instructions, Str(<<"">>)),
     blueprint    |-> "blueprint"]

\* Texts call_greenpt_chat can return for a file (never empty).
Contents == {"text1", "text2"}

UpstreamError == [k |-> "UpstreamError"]

TypeError == [k |-> "TypeError"]

OSError == [k |-> "OSError"]

MaxPlan == 3

WritePaths ==
    { Str(<<"a.txt">>), Str(<<"sub", "b.txt">>), Str(<<"sub">>), Str(<<".">>),
      Str(<<"..", "x">>), Str(<<"", "etc", "x">>), Missing, None }

WriteSpecs == {FileSpec(p, Str(<<"docs">>), Missing, Missing) : p \in WritePaths}

WritePlans == {<<>>} \cup SeqsUpTo(WriteSpecs, MaxPlan)

WriteBases == { <<"", "projects", "foo">>, <<"foo">> }

WriteIdle ==
    /\ w_plan = None /\ w_base = None /\ w_cb = FALSE /\ w_pc = "idle"
    /\ idx = 0 /\ total = 0 /\ target_path = None /\ content = None
    /\ created_files = <<>> /\ w_error = None
    /\ fs_dirs = {} /\ fs_files = <<>>
    /\ mkdir_calls = <<>> /\ write_calls = <<>> /\ chat_calls = <<>> /\ cb_calls = <<>>

\* The caller (greenpt_ui.main) has created base_dir, with its parents, and
\* nothing under it.
InitWrite ==
    /\ w_plan \in WritePlans
    /\ w_base \in WriteBases
    /\ w_cb \in BOOLEAN
    /\ w_pc = "call"
    /\ idx = 0 /\ total = 0 /\ target_path = None /\ content = None
    /\ created_files = <<>> /\ w_error = None
    /\ fs_dirs = Prefixes(PathResolve(PathOf(w_base)).parts)
    /\ fs_files = <<>>
    /\ mkdir_calls = <<>> /\ write_calls = <<>> /\ chat_calls = <<>> /\ cb_calls = <<>>

\* lines 273-274
WriteEnter ==
    /\ w_pc = "call"
    /\ created_files' = <<>>
    /\ total' = Len(w_plan)
    /\ idx' = 0
    /\ w_pc' = "for"
    /\ UNCHANGED <<w_plan, w_base, w_cb, target_path, content, w_error, fs_dirs,
                   fs_files, mkdir_calls, write_calls, chat_calls, cb_calls>>
    /\ UNCHANGED notWriteVars

\* lines 275-277: the next entry, Path(spec.get("path", "output.txt")) and
\* ensure_safe_path.  Path(None) is a TypeError.
WriteResolve ==
    /\ w_pc = "for" /\ idx < Len(w_plan)
    /\ idx' = idx + 1
    /\ LET spec      == w_plan[idx + 1]
           pathValue == DictGet(spec.path, Str(<<"output.txt">>))
       IN  IF pathValue.k # "str"
           THEN /\ w_error' = TypeError
                /\ w_pc' = "raised"
                /\ UNCHANGED target_path
           ELSE LET r == ensure_safe_path(PathOf(w_base), PathOf(pathValue.v))
                IN  IF r.ok
                    THEN /\ target_path' = r.value
                         /\ w_pc' = "mkdir"
                         /\ UNCHANGED w_error
                    ELSE /\ w_error' = r.error
                         /\ w_pc' = "raised"
                         /\ UNCHANGED target_path
    /\ UNCHANGED <<w_plan, w_base, w_cb, total, content, created_files, fs_dirs,
                   fs_files, mkdir_calls, write_calls, chat_calls, cb_calls>>
    /\ UNCHANGED notWriteVars

\* line 278
WriteMkdir ==
    /\ w_pc = "mkdir"
    /\ LET parent == PathParent(target_path)
       IN  /\ mkdir_calls' = Append(mkdir_calls, parent)
           /\ IF MkdirFails(fs_dirs, fs_files, parent)
              THEN /\ w_error' = OSError
                   /\ w_pc' = "raised"
                   /\ UNCHANGED fs_dirs
              ELSE /\ fs_dirs' = MkdirDirs(fs_dirs, parent)
                   /\ w_pc' = "generate"
                   /\ UNCHANGED w_error
    /\ UNCHANGED <<w_plan, w_base, w_cb, idx, total, target_path, content,
                   created_files, fs_files, write_calls, chat_calls, cb_calls>>
    /\ UNCHANGED notWriteVars

\* Variant: an entry whose generation fails is skipped
WriteGenerate_skips ==
    /\ w_pc = "generate"
    /\ chat_calls' = Append(chat_calls, FilePrompt(w_plan[idx]))
    /\ \/ \E text \in Contents :
            /\ content' = text
            /\ w_pc' = "write"
       \/ /\ w_pc' = "for"
          /\ UNCHANGED content
    /\ UNCHANGED <<w_plan, w_base, w_cb, idx, total, target_path, created_files,
                   w_error, fs_dirs, fs_files, mkdir_calls, write_calls, cb_calls>>
    /\ UNCHANGED notWriteVars

\* line 279: one chat call, which returns a text or raises
WriteGenerate ==
    /\ w_pc = "generate"
    /\ chat_calls' = Append(chat_calls, FilePrompt(w_plan[idx]))
    /\ \/ \E text \in Contents :
            /\ content' = text
            /\ w_pc' = "write"
            /\ UNCHANGED w_error
       \/ /\ w_error' = UpstreamError
          /\ w_pc' = "raised"
          /\ UNCHANGED content
    /\ UNCHANGED <<w_plan, w_base, w_cb, idx, total, target_path, created_files,
                   fs_dirs, fs_files, mkdir_calls, write_calls, cb_calls>>
    /\ UNCHANGED notWriteVars

\* Variant: an entry whose file was already created in this run is dropped
WriteText_dedup ==
    /\ w_pc = "write"
    /\ IF \E i \in 1..Len(created_files) : created_files[i] = target_path
       THEN /\ w_pc' = "progress"
            /\ UNCHANGED <<fs_files, created_files, write_calls, w_error>>
       ELSE /\ write_calls' = Append(write_calls, target_path)
            /\ IF WriteTextFails(fs_dirs, fs_files, target_path)
               THEN /\ w_error' = OSError
                    /\ w_pc' = "raised"
                    /\ UNCHANGED <<fs_files, created_files>>
               ELSE /\ fs_files' = WriteTextFiles(fs_files, target_path, content)
                    /\ created_files' = Append(created_files, target_path)
                    /\ w_pc' = "progress"
                    /\ UNCHANGED w_error
    /\ UNCHANGED <<w_plan, w_base, w_cb, idx, total, target_path, content,
                   fs_dirs, mkdir_calls, chat_calls, cb_calls>>
    /\ UNCHANGED notWriteVars

\* lines 280-281
WriteText ==
    /\ w_pc = "write"
    /\ write_calls' = Append(write_calls, target_path)
    /\ IF WriteTextFails(fs_dirs, fs_files, target_path)
       THEN /\ w_error' = OSError
            /\ w_pc' = "raised"
            /\ UNCHANGED <<fs_files, created_files>>
       ELSE /\ fs_files' = WriteTextFiles(fs_files, target_path, content)
            /\ created_files' = Append(created_files, target_path)
            /\ w_pc' = "progress"
            /\ UNCHANGED w_error
    /\ UNCHANGED <<w_plan, w_base, w_cb, idx, total, target_path, content,
                   fs_dirs, mkdir_calls, chat_calls, cb_calls>>
    /\ UNCHANGED notWriteVars

\* Variant: the callback receives a zero-based index
WriteProgress_zero_based ==
    /\ w_pc = "progress"
    /\ cb_calls' = IF w_cb THEN Append(cb_calls, <<idx - 1, total, w_plan[idx]>>)
                   ELSE cb_calls
    /\ w_pc' = "for"
    /\ UNCHANGED <<w_plan, w_base, w_cb, idx, total, target_path, content,
                   created_files, w_error, fs_dirs, fs_files, mkdir_calls,
                   write_calls, chat_calls>>
    /\ UNCHANGED notWriteVars

\* lines 282-283
WriteProgress ==
    /\ w_pc = "progress"
    /\ cb_calls' = IF w_cb THEN Append(cb_calls, <<idx, total, w_plan[idx]>>)
                   ELSE cb_calls
    /\ w_pc' = "for"
    /\ UNCHANGED <<w_plan, w_base, w_cb, idx, total, target_path, content,
                   created_files, w_error, fs_dirs, fs_files, mkdir_calls,
                   write_calls, chat_calls>>
    /\ UNCHANGED notWriteVars

\* line 284
WriteReturn ==
    /\ w_pc = "for" /\ idx = Len(w_plan)
    /\ w_pc' = "done"
    /\ UNCHANGED <<w_plan, w_base, w_cb, idx, total, target_path, content,
                   created_files, w_error, fs_dirs, fs_files, mkdir_calls,
                   write_calls, chat_calls, cb_calls>>
    /\ UNCHANGED notWriteVars

----------------------------------------------------------------------------
(* Text of FileSpec fields.  A description or an instructions text is the   *)
(* sequence of its words between single spaces ("" is <<"">>); a path is    *)
(* the sequence of its pieces between slashes.                              *)

EmptyStr == <<"">>

\* Truth value of spec.get(key): None, a missing key and "" are falsy.
Truthy(value) == value.k = "str" /\ value.v # EmptyStr

\* str.lower() of one word or piece
Lower(w) ==
    CASE w = "Dockerfile" -> "dockerfile"
      [] w = "DOCKERFILE" -> "dockerfile"
      [] w = "README.md" -> "readme.md"
      [] w = "Requirements.txt" -> "requirements.txt"
      [] w = "FastAPI" -> "fastapi"
      [] w = "Frontend" -> "frontend"
      [] w = "PIPFILE" -> "pipfile"
      [] OTHER -> w

LowerText(t) == [i \in DOMAIN t |-> Lower(t[i])]

\* str.strip() of a text: leading and trailing empty words go
RECURSIVE StripText(_)
StripText(t) ==
    IF Len(t) = 1 THEN t
    ELSE IF Head(t) = "" THEN StripText(Tail(t))
    ELSE IF Last(t) = "" THEN StripText(SubSeq(t, 1, Len(t) - 1))
    ELSE t

----------------------------------------------------------------------------
(* file_generator._plan_contains_dockerfile *)

\* lines 16-20 for one entry (a mapping whose path is a string or None)
spec_is_dockerfile(spec) ==
    /\ spec.k = "dict"
    /\ Truthy(spec.path)
    /\ Lower(PathName(PathOf(spec.path.v))) = "dockerfile"

plan_contains_dockerfile_exact(plan) ==
    \E i \in 1..Len(plan) :
        /\ spec_is_dockerfile(plan[i])
        /\ PathName(PathOf(plan[i].path.v)) = "Dockerfile"

plan_contains_dockerfile(plan) ==
    \E i \in 1..Len(plan) : spec_is_dockerfile(plan[i])

----------------------------------------------------------------------------
(* file_generator._collect_stack_hints *)

python_tokens ==
    {".py", "fastapi", "flask", "django", "streamlit", "requirements.txt",
     "pyproject.toml", "poetry.lock", "pipfile", "pipfile.lock"}

node_tokens ==
    {"package.json", "vite.config", "next.config", ".tsx", ".jsx",
     "pnpm-lock.yaml", "yarn.lock", "package-lock.json"}

python_manifest_names ==
    {"requirements.txt", "pyproject.toml", "poetry.lock", "pipfile", "pipfile.lock"}

node_manifest_names ==
    {"package.json", "package-lock.json", "yarn.lock", "pnpm-lock.yaml"}

frontend_tokens == {"frontend/", "client/", "web/", "ui/"}

\* The tokens that occur inside one lower-case word or piece (token in w).
\* No token holds a space, and only the frontend tokens hold a slash, so a
\* token occurs in the blob exactly when it occurs in one of its words.
TokensIn(w) ==
    CASE w = "app.py" -> {".py"}
      [] w = "fastapi" -> {"fastapi"}
      [] w = "requirements.txt" -> {"requirements.txt"}
      [] w = "pipfile" -> {"pipfile"}
      [] w = "pipfile.lock" -> {"pipfile", "pipfile.lock"}
      [] w = "package.json" -> {"package.json"}
      [] w = "index.tsx" -> {".tsx"}
      [] OTHER -> {}

\* The frontend tokens that occur in w/, a piece followed by a slash.
DirTokensIn(w) ==
    CASE w = "frontend" -> {"frontend/"}
      [] w = "ui" -> {"ui/"}
      [] w = "gui" -> {"ui/"}
      [] OTHER -> {}

TextOf(value) == IF value.k = "str" THEN value.v ELSE EmptyStr

\* lines 58-68: the tokens of the detail blob of one entry
BlobTokens(spec) ==
    LET words == LowerText(TextOf(spec.path)) \o LowerText(TextOf(spec.description))
                   \o LowerText(TextOf(spec.instructions))
    IN  UNION {TokensIn(words[i]) : i \in 1..Len(words)}

\* line 74
FileNameLower(spec) == Lower(PathName(PathOf(LowerText(TextOf(spec.path)))))

\* line 93: a piece and the slash after it
PathDirTokens(spec) ==
    LET pieces == LowerText(TextOf(spec.path))
    IN  UNION {DirTokensIn(pieces[i]) : i \in 1..(Len(pieces) - 1)}

\* Variant: the file name is collected instead of the path
ManifestEntry_name(spec) == <<FileNameLower(spec)>>

\* lines 82, 90: spec.get("path") or file_name
ManifestEntry(spec) ==
    IF Truthy(spec.path) THEN spec.path.v ELSE <<FileNameLower(spec)>>

RECURSIVE Manifests(_, _)
Manifests(plan, names) ==
    IF plan = <<>> THEN <<>>
    ELSE (IF FileNameLower(Head(plan)) \in names
          THEN <<ManifestEntry(Head(plan))>> ELSE <<>>)
         \o Manifests(Tail(plan), names)

collect_stack_hints(plan) ==
    [has_python |->
        \E i \in 1..Len(plan) :
            \/ BlobTokens(plan[i]) \cap python_tokens # {}
            \/ FileNameLower(plan[i]) \in python_manifest_names,
     has_node |->
        \E i \in 1..Len(plan) :
            \/ BlobTokens(plan[i]) \cap node_tokens # {}
            \/ FileNameLower(plan[i]) \in node_manifest_names,
     has_frontend |->
        \E i \in 1..Len(plan) : PathDirTokens(plan[i]) \cap frontend_tokens # {},
     python_manifests |-> Manifests(plan, python_manifest_names),
     node_manifests |-> Manifests(plan, node_manifest_names)]

----------------------------------------------------------------------------
(* file_generator._summarize_plan and _dockerfile_instruction_text.  The    *)
(* instruction text is the sequence of its lines, each a record.            *)

max_items == 8

\* lines 103-108
SummaryLine(spec) ==
    LET description == StripText(TextOf(spec.description))
    IN  [path |-> IF Truthy(spec.path) THEN spec.path.v ELSE <<"(unnamed file)">>,
         description |-> IF description # EmptyStr THEN description ELSE EmptyStr]

Ellipsis == [path |-> <<"...">>, description |-> EmptyStr]

\* Variant: the marker is appended as soon as the limit is reached
summarize_plan_at_limit(plan) ==
    [i \in 1..(IF Len(plan) < max_items THEN Len(plan) ELSE max_items) |->
        SummaryLine(plan[i])]
    \o (IF Len(plan) >= max_items THEN <<Ellipsis>> ELSE <<>>)

summarize_plan(plan) ==
    [i \in 1..(IF Len(plan) < max_items THEN Len(plan) ELSE max_items) |->
        SummaryLine(plan[i])]
    \o (IF Len(plan) > max_items THEN <<Ellipsis>> ELSE <<>>)

Rule(name) == [rule |-> name, manifests |-> <<>>]

ManifestRule(name, manifests) == [rule |-> name, manifests |-> manifests]

GeneralRules ==
    <<Rule("create"), Rule("general-rules"), Rule("base-image"), Rule("workdir"),
      Rule("install-only-needed"), Rule("expose-port"), Rule("cmd")>>

\* Variant: the stack-specific rule as one chain of alternatives
dockerfile_instruction_text_priority(plan) ==
    LET hints == collect_stack_hints(plan)
        summaries == summarize_plan(plan)
    IN  GeneralRules
        \o (IF hints.python_manifests # <<>> /\ hints.node_manifests # <<>>
            THEN <<Rule("hybrid")>>
            ELSE IF hints.python_manifests # <<>>
            THEN <<ManifestRule("python-manifests", hints.python_manifests)>>
            ELSE IF hints.has_python THEN <<Rule("python-generic")>>
            ELSE IF hints.node_manifests # <<>>
            THEN <<ManifestRule("node-manifests", hints.node_manifests)>>
            ELSE IF hints.has_node \/ hints.has_frontend
            THEN <<Rule("node-build-stage")>>
            ELSE <<>>)
        \o (IF summaries # <<>>
            THEN <<Rule("key-files")>>
                 \o [i \in 1..Len(summaries) |-> [rule |-> "file", file |-> summaries[i]]]
            ELSE <<>>)

dockerfile_instruction_text(plan) ==
    LET hints == collect_stack_hints(plan)
        summaries == summarize_plan(plan)
    IN  GeneralRules
        \o (IF hints.python_manifests # <<>>
            THEN <<ManifestRule("python-manifests", hints.python_manifests)>>
            ELSE IF hints.has_python THEN <<Rule("python-generic")>> ELSE <<>>)
        \o (IF hints.node_manifests # <<>>
            THEN <<ManifestRule("node-manifests", hints.node_manifests)>>
            ELSE IF hints.has_node \/ hints.has_frontend
                 THEN <<Rule("node-build-stage")>> ELSE <<>>)
        \o (IF hints.has_python /\ hints.has_node THEN <<Rule("hybrid")>> ELSE <<>>)
        \o (IF summaries # <<>>
            THEN <<Rule("key-files")>>
                 \o [i \in 1..Len(summaries) |-> [rule |-> "file", file |-> summaries[i]]]
            ELSE <<>>)

----------------------------------------------------------------------------
(* file_generator.ensure_dockerfile_entry.  The list is changed in place    *)
(* and the same list object is returned: plan is the list the call          *)
(* returns and also the content of the caller's list afterwards; inferred   *)
(* tells whether Stack Inference ran.                                       *)

docker_spec(plan) ==
    FileSpec(Str(<<"Dockerfile">>), Str(<<"infrastructure">>),
             Str(<<"Container", "configuration">>),
             [k |-> "text", lines |-> dockerfile_instruction_text(plan)])

ensure_dockerfile_entry_always(plan) ==
    [plan |-> Append(plan, docker_spec(plan)), inferred |-> TRUE]

ensure_dockerfile_entry_front(plan) ==
    IF plan_contains_dockerfile(plan)
    THEN [plan |-> plan, inferred |-> FALSE]
    ELSE [plan |-> <<docker_spec(plan)>> \o plan, inferred |-> TRUE]

ensure_dockerfile_entry(plan) ==
    IF plan_contains_dockerfile(plan)
    THEN [plan |-> plan, inferred |-> FALSE]
    ELSE [plan |-> Append(plan, docker_spec(plan)), inferred |-> TRUE]

----------------------------------------------------------------------------
(* Specification SpecAug: ensure_dockerfile_entry applied to bounded plans, *)
(* and applied again to what it returned                                    *)

AugSpecs ==
    { FileSpec(Str(<<"README.md">>), Str(<<"docs">>), Str(<<"x">>), Str(<<"y">>)),
      FileSpec(Str(<<"Dockerfile">>), Str(<<"infrastructure">>), Missing, Missing),
      FileSpec(Str(<<"infra", "docker", "Dockerfile">>), Str(<<"infrastructure">>),
               None, None),
      FileSpec(Str(<<"dockerfile">>), Missing, Str(<<"">>), Str(<<"">>)),
      FileSpec(Str(<<"ui", "DOCKERFILE", "">>), Missing, Missing, Missing),
      FileSpec(Str(<<"Dockerfile", "..">>), Str(<<"config">>), Missing, Missing),
      FileSpec(Str(<<"backend", "Requirements.txt">>), Str(<<"backend">>),
               Str(<<"FastAPI", "app">>), Missing),
      FileSpec(Str(<<"Frontend", "index.tsx">>), Str(<<"frontend">>), Missing, Missing),
      FileSpec(Str(<<"package.json">>), Str(<<"config">>), Str(<<"", "">>), Missing),
      FileSpec(None, Str(<<"docs">>), Str(<<"x">>), Missing),
      FileSpec(Missing, Missing, Missing, Missing),
      FileSpec(Str(<<"">>), Str(<<"tests">>), Missing, Str(<<"app.py">>)) }

\* Plans around the digest limit of _summarize_plan: distinct filler entries
\* with one entry of DigestSpecs at any position
MaxLongPlan == 10

Filler(i) ==
    FileSpec(Str(<<"lib", ToString(i)>>), Str(<<"code">>),
             IF i % 2 = 0 THEN Str(<<"part", ToString(i)>>) ELSE Missing, Missing)

DigestSpecs ==
    { FileSpec(None, Str(<<"docs">>), Str(<<"", "notes", "">>), Missing),
      FileSpec(Str(<<"package.json">>), Str(<<"config">>), Str(<<"", "">>), Missing),
      FileSpec(Str(<<"app.py">>), Str(<<"backend">>), None, Missing),
      FileSpec(Str(<<"Dockerfile">>), Str(<<"infrastructure">>), Missing, Missing) }

LongPlans ==
    { [i \in 1..n |-> IF i = j THEN s ELSE Filler(i)] :
        n \in (max_items - 1)..MaxLongPlan, j \in 1..MaxLongPlan, s \in DigestSpecs }

AugPlans == {<<>>} \cup SeqsUpTo(AugSpecs, MaxPlan) \cup LongPlans

AugIdle ==
    /\ a_input = None /\ a_plan = None /\ a_pc = "idle"
    /\ a_once = None /\ a_twice = None /\ a_inferred = 0

InitAug ==
    /\ a_input \in AugPlans
    /\ a_plan = a_input
    /\ a_pc = "call"
    /\ a_once = None /\ a_twice = None /\ a_inferred = 0

\* ensure_dockerfile_entry(plan)
AugOnce ==
    /\ a_pc = "call"
    /\ LET r == ensure_dockerfile_entry(a_plan)
       IN  /\ a_plan' = r.plan
           /\ a_once' = r.plan
           /\ a_inferred' = a_inferred + (IF r.inferred THEN 1 ELSE 0)
    /\ a_pc' = "once"
    /\ UNCHANGED <<a_input, a_twice>>
    /\ UNCHANGED notAugVars

\* ensure_dockerfile_entry(ensure_dockerfile_entry(plan)): the second call
\* gets the list the first one returned, which is the caller's list
AugTwice ==
    /\ a_pc = "once"
    /\ LET r == ensure_dockerfile_entry(a_plan)
       IN  /\ a_plan' = r.plan
           /\ a_twice' = r.plan
           /\ a_inferred' = a_inferred + (IF r.inferred THEN 1 ELSE 0)
    /\ a_pc' = "twice"
    /\ UNCHANGED <<a_input, a_once>>
    /\ UNCHANGED notAugVars

----------------------------------------------------------------------------
(* Raw reply text.  A text is the sequence of its lexical chunks: a space,  *)
(* a newline, a fence of three backticks, the brackets, the comma, JSON     *)
(* scalars, whole JSON objects, and words of prose.  The chunks are chosen  *)
(* so that no two chunk sequences spell the same characters and so that     *)
(* adjacent chunks never fuse into valid JSON ("00", "nullnull").           *)

SP == " "
NL == "\n"
\* The fence chunk stands for three backticks.
FENCE == "FENCE"

Whitespace == {SP, NL}

\* Whole JSON objects that replies hold, by chunk.
ObjectChunks == {"{readme}", "{docker}", "{app}"}

ObjectValue(c) ==
    CASE c = "{readme}" ->
           FileSpec(Str(<<"README.md">>), Str(<<"docs">>), Str(<<"x">>), Str(<<"y">>))
      [] c = "{docker}" ->
           FileSpec(Str(<<"infra", "Dockerfile">>), Str(<<"infrastructure">>),
                    Missing, Missing)
      [] c = "{app}" ->
           FileSpec(Str(<<"backend", "app.py">>), Str(<<"backend">>),
                    Str(<<"FastAPI", "app">>), Missing)

ScalarChunks == {"0", "null", "\"s\""}

ScalarValue(c) ==
    CASE c = "0" -> [k |-> "int"]
      [] c = "null" -> None
      [] c = "\"s\"" -> Str(<<"s">>)

List(items) == [k |-> "list", items |-> items]

\* str.strip(): leading and trailing whitespace goes
RECURSIVE Strip(_)
Strip(t) ==
    IF t = <<>> THEN t
    ELSE IF Head(t) \in Whitespace THEN Strip(Tail(t))
    ELSE IF Last(t) \in Whitespace THEN Strip(SubSeq(t, 1, Len(t) - 1))
    ELSE t

\* str.strip of backticks: leading and trailing backticks go
RECURSIVE StripBackticks(_)
StripBackticks(t) ==
    IF t = <<>> THEN t
    ELSE IF Head(t) = FENCE THEN StripBackticks(Tail(t))
    ELSE IF Last(t) = FENCE THEN StripBackticks(SubSeq(t, 1, Len(t) - 1))
    ELSE t

\* str.splitlines(): the lines between newlines; a final newline opens no line
RECURSIVE SplitAtNewlines(_, _)
SplitAtNewlines(t, line) ==
    IF t = <<>> THEN <<line>>
    ELSE IF Head(t) = NL THEN <<line>> \o SplitAtNewlines(Tail(t), <<>>)
    ELSE SplitAtNewlines(Tail(t), Append(line, Head(t)))

SplitLines(t) ==
    LET lines == SplitAtNewlines(t, <<>>)
    IN  IF Last(lines) = <<>> THEN SubSeq(lines, 1, Len(lines) - 1) ELSE lines

\* "\n".join(lines)
RECURSIVE JoinLines(_)
JoinLines(lines) ==
    IF lines = <<>> THEN <<>>
    ELSE IF Len(lines) = 1 THEN Head(lines)
    ELSE Head(lines) \o <<NL>> \o JoinLines(Tail(lines))

\* str.lower() of a line that is a language tag
LowerChunks(t) == [i \in DOMAIN t |-> IF t[i] = "JSON" THEN "json" ELSE t[i]]

\* str.find / str.rfind of a one-character chunk; 0 when absent
FindFirst(t, c) ==
    IF \E i \in 1..Len(t) : t[i] = c
    THEN CHOOSE i \in 1..Len(t) : t[i] = c /\ \A j \in 1..(i - 1) : t[j] # c
    ELSE 0

FindLast(t, c) ==
    IF \E i \in 1..Len(t) : t[i] = c
    THEN CHOOSE i \in 1..Len(t) : t[i] = c /\ \A j \in (i + 1)..Len(t) : t[j] # c
    ELSE 0

----------------------------------------------------------------------------
(* json.loads: a recursive-descent parse of the chunks *)

SkipWs(t, i) ==
    IF \E j \in i..Len(t) : t[j] \notin Whitespace
    THEN CHOOSE j \in i..Len(t) :
            t[j] \notin Whitespace /\ \A m \in i..(j - 1) : t[m] \in Whitespace
    ELSE Len(t) + 1

ParseFail == [ok |-> FALSE]

RECURSIVE ParseValue(_, _), ParseElements(_, _, _)
\* One JSON value starting at or after position i: [ok, value, next]
ParseValue(t, i) ==
    LET j == SkipWs(t, i)
    IN  IF j > Len(t) THEN ParseFail
        ELSE IF t[j] \in ScalarChunks
             THEN [ok |-> TRUE, value |-> ScalarValue(t[j]), next |-> j + 1]
        ELSE IF t[j] \in ObjectChunks
             THEN [ok |-> TRUE, value |-> ObjectValue(t[j]), next |-> j + 1]
        ELSE IF t[j] = "["
             THEN LET m == SkipWs(t, j + 1)
                  IN  IF m <= Len(t) /\ t[m] = "]"
                      THEN [ok |-> TRUE, value |-> List(<<>>), next |-> m + 1]
                      ELSE ParseElements(t, j + 1, <<>>)
        ELSE ParseFail

\* The elements of an array after its "[" or after a comma
ParseElements(t, i, items) ==
    LET r == ParseValue(t, i)
    IN  IF ~r.ok THEN ParseFail
        ELSE LET m == SkipWs(t, r.next)
             IN  IF m > Len(t) THEN ParseFail
                 ELSE IF t[m] = "]"
                      THEN [ok |-> TRUE, value |-> List(Append(items, r.value)),
                            next |-> m + 1]
                 ELSE IF t[m] = ","
                      THEN ParseElements(t, m + 1, Append(items, r.value))
                 ELSE ParseFail

JSONDecodeError(doc) == [k |-> "JSONDecodeError", doc |-> doc]

\* json.loads(doc): the value, or JSONDecodeError for that document
json_loads(doc) ==
    LET r == ParseValue(doc, 1)
    IN  IF r.ok /\ SkipWs(doc, r.next) > Len(doc)
        THEN [ok |-> TRUE, value |-> r.value]
        ELSE [ok |-> FALSE, error |-> JSONDecodeError(doc)]

----------------------------------------------------------------------------
(* file_generator.extract_json_array *)

EmptyResponseError == [k |-> "ValueError", what |-> "empty response"]

EmptyFenceError == [k |-> "ValueError", what |-> "empty fenced code block"]

\* line 178: (raw_text or "").strip()
CleanedOf(text) == IF text.k = "str" THEN Strip(text.v) ELSE <<>>

\* lines 183-190: the text inside the fences
Unfence(cleaned) ==
    LET fence_lines == SplitLines(cleaned)
        first_line  == Strip(StripBackticks(Head(fence_lines)))
        after_first == IF fence_lines # <<>> /\ LowerChunks(first_line) = <<"json">>
                       THEN Tail(fence_lines) ELSE fence_lines
        last_line   == Strip(Last(after_first))
        after_last  == IF after_first # <<>> /\ last_line # <<>> /\ Head(last_line) = FENCE
                       THEN SubSeq(after_first, 1, Len(after_first) - 1)
                       ELSE after_first
    IN  Strip(JoinLines(after_last))

\* Variant: the strict parse alone, without the bracket scan
ParseCleaned_strict(cleaned) ==
    LET strict == json_loads(cleaned)
    IN  IF strict.ok THEN [ok |-> TRUE, value |-> strict.value, loads |-> <<cleaned>>]
        ELSE [ok |-> FALSE, error |-> strict.error, loads |-> <<cleaned>>]

\* lines 194-204: strict parse, then the first "[" to the last "]"
ParseCleaned(cleaned) ==
    LET strict == json_loads(cleaned)
        start  == FindFirst(cleaned, "[")
        end    == FindLast(cleaned, "]")
        snippet == Strip(SubSeq(cleaned, start, end))
    IN  IF strict.ok THEN [ok |-> TRUE, value |-> strict.value, loads |-> <<cleaned>>]
        ELSE IF start # 0 /\ end # 0 /\ start < end /\ snippet # <<>>
             THEN LET second == json_loads(snippet)
                  IN  IF second.ok
                      THEN [ok |-> TRUE, value |-> second.value,
                            loads |-> <<cleaned, snippet>>]
                      ELSE [ok |-> FALSE, error |-> second.error,
                            loads |-> <<cleaned, snippet>>]
             ELSE [ok |-> FALSE, error |-> strict.error, loads |-> <<cleaned>>]

\* extract_json_array(text), for text None or Str(chunks): [ok, value | error,
\* loads], where loads is the sequence of documents handed to json.loads
extract_json_array(text) ==
    LET cleaned == CleanedOf(text)
    IN  IF cleaned = <<>>
        THEN [ok |-> FALSE, error |-> EmptyResponseError, loads |-> <<>>]
        ELSE IF Head(cleaned) = FENCE
             THEN LET inner == Unfence(cleaned)
                  IN  IF inner = <<>>
                      THEN [ok |-> FALSE, error |-> EmptyFenceError, loads |-> <<>>]
                      ELSE ParseCleaned(inner)
             ELSE ParseCleaned(cleaned)

----------------------------------------------------------------------------
(* Specification SpecExtract: extract_json_array applied to bounded texts *)

MaxTextLen == 4

ExtractChunks == {SP, NL, FENCE, "json", "[", "]", "0", "x"}

ExtractTexts ==
    {None, Str(<<>>)} \cup {Str(t) : t \in SeqsUpTo(ExtractChunks, MaxTextLen)}

ExtractIdle ==
    /\ raw_text = None /\ x_pc = "idle" /\ x_out = None

InitExtract ==
    /\ raw_text \in ExtractTexts
    /\ x_pc = "call"
    /\ x_out = None

CallExtract ==
    /\ x_pc = "call"
    /\ x_out' = extract_json_array(raw_text)
    /\ x_pc' = "returned"
    /\ UNCHANGED raw_text
    /\ UNCHANGED notExtractVars

----------------------------------------------------------------------------
(* api_client.call_greenpt_chat.  A response body is the decoded JSON object *)
(* with its choices, summary and message fields; texts are sequences of      *)
(* words, an empty word standing for surrounding whitespace.                 *)

AttributeError == [k |-> "AttributeError"]

\* lines 19-22
MissingKeyError == [k |-> "ValueError", what |-> "Missing GREENPT_API_KEY"]

\* lines 100-103
TimedOutError(tries) ==
    [k |-> "RequestException", what |-> "Request timed out", tries |-> tries]

\* line 91: response.raise_for_status()
HTTPError(status) == [k |-> "HTTPError", status |-> status]

ConnectionError == [k |-> "ConnectionError"]

\* line 111: response.json() on a body that is not JSON
ResponseJsonError == [k |-> "requests.JSONDecodeError"]

\* line 115
NoChoicesError == [k |-> "ValueError", what |-> "GreenPT returned no choices"]

\* line 123
NoContentError == [k |-> "ValueError", what |-> "no assistant content"]

\* value or ""
OrEmpty(value) == IF Truthy(value) THEN value.v ELSE EmptyStr

\* Variant: the content of the first choice is returned as it came
chat_content_raw(data) ==
    LET choices == IF data.choices.k = "list" THEN data.choices.items ELSE <<>>
    IN  IF choices = <<>> THEN [ok |-> FALSE, error |-> NoChoicesError]
        ELSE LET message == Head(choices).message
                 raw == IF message.k = "dict" THEN message.content ELSE Missing
             IN  IF raw.k = "list" /\ raw.items # <<>>
                 THEN [ok |-> FALSE, error |-> AttributeError]
                 ELSE [ok |-> TRUE, text |-> Str(OrEmpty(raw))]

\* lines 113-125
chat_content(data) ==
    LET choices == IF data.choices.k = "list" THEN data.choices.items ELSE <<>>
    IN  IF choices = <<>> THEN [ok |-> FALSE, error |-> NoChoicesError]
        ELSE LET message == Head(choices).message
                 raw == IF message.k = "dict" THEN message.content ELSE Missing
             IN  IF raw.k = "list" /\ raw.items # <<>>
                 THEN [ok |-> FALSE, error |-> AttributeError]
                 ELSE LET stripped == StripText(OrEmpty(raw))
                          fallback == IF Truthy(data.summary) THEN data.summary.v
                                      ELSE OrEmpty(data.message)
                          text == IF stripped # EmptyStr THEN stripped
                                  ELSE StripText(fallback)
                      IN  IF text = EmptyStr
                          THEN [ok |-> FALSE, error |-> NoContentError]
                          ELSE [ok |-> TRUE, text |-> Str(text)]

NotJson == [k |-> "html"]

\* lines 111-125
chat_result(body) ==
    IF body = NotJson THEN [ok |-> FALSE, error |-> ResponseJsonError]
    ELSE chat_content(body)

\* line 51: the retry budget of a call that does not name one
default_chat_retries == 2

\* What a call made by generate_build_plan (line 224 of file_generator.py)
\* can raise
ChatFailures ==
    { MissingKeyError, TimedOutError(default_chat_retries + 1), HTTPError(401),
      HTTPError(500), ConnectionError, ResponseJsonError, NoChoicesError,
      NoContentError }

----------------------------------------------------------------------------
(* Specification SpecChat: call_greenpt_chat against every course of         *)
(* responses, time-outs and request errors                                   *)

MaxChatRetries == 2

ChatContents ==
    { Missing, None, Str(<<"", "">>), Str(<<"", "hi", "">>), Str(<<"hi">>),
      List(<<Str(<<"hi">>)>>) }

ChatMessages == {Missing, None} \cup {[k |-> "dict", content |-> c] : c \in ChatContents}

ChatChoices ==
    {Missing, None, List(<<>>)}
        \cup {List(<<[message |-> m]>>) : m \in ChatMessages}

ChatBodies ==
    { [k |-> "dict", choices |-> c, summary |-> s, message |-> m] :
        c \in ChatChoices,
        s \in {Missing, Str(<<"", "">>), Str(<<"sum", "">>)},
        m \in {Missing, Str(<<"msg">>)} }
    \cup {NotJson}

RequestErrors == {HTTPError(401), HTTPError(500), ConnectionError}

ChatIdle ==
    /\ c_key = FALSE /\ c_max_retries = 0 /\ c_attempt = 0 /\ c_pc = "idle"
    /\ c_out = None /\ c_requests = <<>> /\ c_sleeps = <<>> /\ c_response = None

\* lines 56-83; GREENPT_API_KEY is read once, when config is imported
InitChat ==
    /\ c_key \in BOOLEAN
    /\ c_max_retries \in 0..MaxChatRetries
    /\ c_attempt = 0 /\ c_pc = "for"
    /\ c_out = None /\ c_requests = <<>> /\ c_sleeps = <<>> /\ c_response = None

\* line 88: the headers are built before the request is; without a key the
\* ValueError passes both except clauses
ChatHeadersRaise ==
    /\ c_pc = "for" /\ ~c_key
    /\ c_out' = [outcome |-> "raise", error |-> MissingKeyError]
    /\ c_pc' = "raised"
    /\ UNCHANGED <<c_key, c_max_retries, c_attempt, c_requests, c_sleeps, c_response>>
    /\ UNCHANGED notChatVars

\* lines 85-90: the request goes out and the call blocks on it
ChatPost ==
    /\ c_pc = "for" /\ c_key
    /\ c_requests' = Append(c_requests, "pending")
    /\ c_pc' = "post"
    /\ UNCHANGED <<c_key, c_max_retries, c_attempt, c_out, c_sleeps, c_response>>
    /\ UNCHANGED notChatVars

Settle(requests, outcome) == [requests EXCEPT ![Len(requests)] = outcome]

\* lines 91-92: a response with a success status ends the loop
ChatOk ==
    /\ c_pc = "post"
    /\ \E body \in ChatBodies : c_response' = body
    /\ c_requests' = Settle(c_requests, "ok")
    /\ c_pc' = "json"
    /\ UNCHANGED <<c_key, c_max_retries, c_attempt, c_out, c_sleeps>>
    /\ UNCHANGED notChatVars

\* lines 93-103
ChatTimeout ==
    /\ c_pc = "post"
    /\ c_requests' = Settle(c_requests, "Timeout")
    /\ IF c_attempt < c_max_retries
       THEN /\ c_sleeps' = Append(c_sleeps, (c_attempt + 1) * 5)
            /\ c_attempt' = c_attempt + 1
            /\ c_pc' = "for"
            /\ UNCHANGED c_out
       ELSE /\ c_out' = [outcome |-> "raise", error |-> TimedOutError(c_max_retries + 1)]
            /\ c_pc' = "raised"
            /\ UNCHANGED <<c_sleeps, c_attempt>>
    /\ UNCHANGED <<c_key, c_max_retries, c_response>>
    /\ UNCHANGED notChatVars

\* lines 104-109: an error status from raise_for_status or a failed connection
ChatRequestError ==
    /\ c_pc = "post"
    /\ \E err \in RequestErrors :
         /\ c_requests' = Settle(c_requests, err.k)
         /\ IF c_attempt < c_max_retries
            THEN /\ c_sleeps' = Append(c_sleeps, (c_attempt + 1) * 2)
                 /\ c_attempt' = c_attempt + 1
                 /\ c_pc' = "for"
                 /\ UNCHANGED c_out
            ELSE /\ c_out' = [outcome |-> "raise", error |-> err]
                 /\ c_pc' = "raised"
                 /\ UNCHANGED <<c_sleeps, c_attempt>>
    /\ UNCHANGED <<c_key, c_max_retries, c_response>>
    /\ UNCHANGED notChatVars

\* lines 111-125
ChatContent ==
    /\ c_pc = "json"
    /\ \E r \in {chat_result(c_response)} :
         IF r.ok
         THEN /\ c_out' = [outcome |-> "return", text |-> r.text]
              /\ c_pc' = "returned"
         ELSE /\ c_out' = [outcome |-> "raise", error |-> r.error]
              /\ c_pc' = "raised"
    /\ UNCHANGED <<c_key, c_max_retries, c_attempt, c_requests, c_sleeps, c_response>>
    /\ UNCHANGED notChatVars

----------------------------------------------------------------------------
(* file_generator.generate_build_plan *)

\* BUILD_PLAN_PROMPT.format(blueprint=blueprint)
base_prompt == <<"BUILD_PLAN_PROMPT(blueprint)">>

Reminder == "Reminder: Return a JSON array only. No prose."

attempt_prompt_plain(n) == base_prompt

\* lines 219-223, for attempt n = 0, 1, ...
attempt_prompt(n) == IF n = 0 THEN base_prompt ELSE Append(base_prompt, Reminder)

EmptyPlanError == [k |-> "ValueError", what |-> "Build plan response was empty."]

\* The scan of line 15 reaches an element without .get (a number, a string,
\* None, a list) before it has met a Dockerfile entry.
ScanRaises(plan) ==
    \E i \in 1..Len(plan) :
        /\ plan[i].k # "dict"
        /\ \A j \in 1..(i - 1) : ~spec_is_dockerfile(plan[j])

attempt_outcome_noaug(r) ==
    IF ~r.ok THEN [outcome |-> "retry", error |-> r.error]
    ELSE IF r.value.k # "list" \/ r.value.items = <<>>
         THEN [outcome |-> "retry", error |-> EmptyPlanError]
    ELSE [outcome |-> "return", plan |-> r.value.items, augmented |-> 0]

attempt_outcome_anylist(r) ==
    IF ~r.ok THEN [outcome |-> "retry", error |-> r.error]
    ELSE IF r.value.k # "list"
         THEN [outcome |-> "retry", error |-> EmptyPlanError]
    ELSE IF ScanRaises(r.value.items)
         THEN [outcome |-> "raise", error |-> AttributeError, augmented |-> 1]
    ELSE [outcome |-> "return", plan |-> ensure_dockerfile_entry(r.value.items).plan,
          augmented |-> 1]

\* lines 227-235, for r the outcome of extract_json_array: record the error
\* and go on, or return the augmented plan, or die in the Plan Augmenter
attempt_outcome(r) ==
    IF ~r.ok THEN [outcome |-> "retry", error |-> r.error]
    ELSE IF r.value.k # "list" \/ r.value.items = <<>>
         THEN [outcome |-> "retry", error |-> EmptyPlanError]
    ELSE IF ScanRaises(r.value.items)
         THEN [outcome |-> "raise", error |-> AttributeError, augmented |-> 1]
    ELSE [outcome |-> "return", plan |-> ensure_dockerfile_entry(r.value.items).plan,
          augmented |-> 1]

\* lines 225-235 for one reply
parse_attempt(text) == attempt_outcome(extract_json_array(text))

build_plan_error_retries(retries, error, raw) ==
    [k |-> "ValueError", what |-> "Could not parse build plan JSON",
     attempts |-> retries, last_error |-> error, raw_response |-> raw]

\* lines 237-242: the message of the final ValueError
build_plan_error(retries, error, raw) ==
    [k |-> "ValueError", what |-> "Could not parse build plan JSON",
     attempts |-> retries + 1, last_error |-> error, raw_response |-> raw]

----------------------------------------------------------------------------
(* Specification SpecGen: generate_build_plan against every sequence of     *)
(* replies drawn from GenReplies                                            *)

\* The largest retry budget tried; the default of the code is 1.
MaxRetries == 2

\* call_greenpt_chat returns stripped, non-empty text
GenReplies ==
    { Str(<<"x">>),
      Str(<<"x", SP, "[", "x", "]">>),
      Str(<<"[", "{readme}", "]">>),
      Str(<<"x", SP, "[", "{app}", ",", "{readme}", "]", SP, "x">>),
      Str(<<FENCE, "json", NL, "[", "{app}", "]", NL, FENCE>>),
      Str(<<FENCE, "json", NL, FENCE>>),
      Str(<<"[", "{docker}", ",", "{readme}", "]">>),
      Str(<<"[", "]">>),
      Str(<<"{readme}">>),
      Str(<<"0">>),
      Str(<<"\"s\"">>),
      Str(<<"null">>),
      Str(<<"[", "0", ",", "{readme}", "]">>),
      Str(<<"[", "{docker}", ",", "0", "]">>) }

GenIdle ==
    /\ max_retries = 0 /\ attempt = 0 /\ plan_text = None
    /\ last_error = None /\ last_raw = None /\ g_pc = "idle" /\ g_out = None
    /\ g_prompts = <<>> /\ g_replies = <<>> /\ g_augmented = 0

\* lines 214-216
InitGen ==
    /\ max_retries \in 0..MaxRetries
    /\ attempt = 0 /\ plan_text = None
    /\ last_error = None /\ last_raw = None /\ g_pc = "for" /\ g_out = None
    /\ g_prompts = <<>> /\ g_replies = <<>> /\ g_augmented = 0

\* lines 218-224: the next attempt sends its prompt; attempt counts the
\* attempts begun
GenCall ==
    /\ g_pc = "for" /\ attempt < max_retries + 1
    /\ g_prompts' = Append(g_prompts, attempt_prompt(attempt))
    /\ attempt' = attempt + 1
    /\ g_pc' = "chat"
    /\ UNCHANGED <<max_retries, plan_text, last_error, last_raw, g_out, g_replies,
                   g_augmented>>
    /\ UNCHANGED notGenVars

\* line 224: call_greenpt_chat returns a text
GenReply ==
    /\ g_pc = "chat"
    /\ \E text \in GenReplies :
         /\ plan_text' = text
         /\ g_replies' = Append(g_replies, text)
    /\ g_pc' = "parse"
    /\ UNCHANGED <<max_retries, attempt, last_error, last_raw, g_out, g_prompts,
                   g_augmented>>
    /\ UNCHANGED notGenVars

\* Variant: the failure is recorded like a reply that did not parse
GenChatRaises_as_parse_failure ==
    /\ g_pc = "chat"
    /\ \E err \in ChatFailures : last_error' = err
    /\ g_pc' = "for"
    /\ UNCHANGED <<max_retries, attempt, plan_text, g_out, last_raw, g_prompts,
                   g_replies, g_augmented>>
    /\ UNCHANGED notGenVars

\* line 224: call_greenpt_chat raises, and nothing here catches it
GenChatRaises ==
    /\ g_pc = "chat"
    /\ \E err \in ChatFailures : g_out' = [outcome |-> "raise", error |-> err]
    /\ g_pc' = "raised"
    /\ UNCHANGED <<max_retries, attempt, plan_text, last_error, last_raw, g_prompts,
                   g_replies, g_augmented>>
    /\ UNCHANGED notGenVars

\* lines 225-235
GenParse ==
    /\ g_pc = "parse"
    /\ \E r \in {parse_attempt(plan_text)} :
           CASE r.outcome = "retry" ->
                  /\ last_error' = r.error
                  /\ last_raw' = plan_text
                  /\ g_pc' = "for"
                  /\ UNCHANGED <<g_out, g_augmented>>
             [] r.outcome = "return" ->
                  /\ g_out' = [outcome |-> "return", plan |-> r.plan]
                  /\ g_augmented' = g_augmented + r.augmented
                  /\ g_pc' = "returned"
                  /\ UNCHANGED <<last_error, last_raw>>
             [] r.outcome = "raise" ->
                  /\ g_out' = [outcome |-> "raise", error |-> r.error]
                  /\ g_augmented' = g_augmented + r.augmented
                  /\ g_pc' = "raised"
                  /\ UNCHANGED <<last_error, last_raw>>
    /\ UNCHANGED <<max_retries, attempt, plan_text, g_prompts, g_replies>>
    /\ UNCHANGED notGenVars

\* lines 237-242: the loop has run out
GenExhausted ==
    /\ g_pc = "for" /\ attempt = max_retries + 1
    /\ g_out' = [outcome |-> "raise",
                 error |-> build_plan_error(max_retries, last_error, last_raw)]
    /\ g_pc' = "raised"
    /\ UNCHANGED <<max_retries, attempt, plan_text, last_error, last_raw, g_prompts,
                   g_replies, g_augmented>>
    /\ UNCHANGED notGenVars

----------------------------------------------------------------------------
(* file_generator.package_directory.  A file's content is the sequence of   *)
(* its bytes.  The archive is the sequence of its entries, each with the    *)
(* name it is stored under and its deflated data.                           *)

\* DEFLATE in miniature: a byte equal to the previous one opens a match of
\* distance 1 over the whole run, any other byte is a literal.
RECURSIVE RunLength(_, _)
RunLength(t, b) ==
    IF t # <<>> /\ Head(t) = b THEN 1 + RunLength(Tail(t), b) ELSE 0

RECURSIVE Deflate(_, _)
Deflate(t, prev) ==
    IF t = <<>> THEN <<>>
    ELSE IF Head(t) = prev
         THEN <<[k |-> "match", length |-> RunLength(t, prev), distance |-> 1]>>
              \o Deflate(SubSeq(t, RunLength(t, prev) + 1, Len(t)), prev)
         ELSE <<[k |-> "literal", byte |-> Head(t)]>> \o Deflate(Tail(t), Head(t))

RECURSIVE Inflate(_, _)
Inflate(tokens, out) ==
    IF tokens = <<>> THEN out
    ELSE IF Head(tokens).k = "literal"
         THEN Inflate(Tail(tokens), Append(out, Head(tokens).byte))
         ELSE Inflate(Tail(tokens),
                      out \o [i \in 1..Head(tokens).length |->
                                 out[Len(out) - Head(tokens).distance + 1]])

\* f"{directory.name}.zip"
ZipNameOf(d) == <<PathName(d), ".zip">>

\* directory.rglob("*"): every path below the directory, files and
\* directories alike; nothing when the directory does not exist.
RGlob(dirs, files, d) ==
    LET root == PathResolve(d).parts
    IN  IF root \notin dirs THEN {}
        ELSE {e \in dirs \cup DOMAIN files : IsPrefix(root, e) /\ e # root}

\* Variant: the archive name is the file's own name
RelativeTo_basename(parts, d) == <<Last(parts)>>

\* path.relative_to(directory), as the archive name with "/" between pieces
RelativeTo(parts, d) ==
    SubSeq(parts, Len(PathResolve(d).parts) + 1, Len(parts))

\* zipf.write(path, arcname) under ZIP_DEFLATED
ZipEntry(files, parts, d) ==
    [filename |-> RelativeTo(parts, d),
     compress_type |-> "ZIP_DEFLATED",
     data |-> Deflate(files[parts], "")]

\* The orders in which rglob can yield a set of paths
Orderings(S) ==
    {order \in [1..Cardinality(S) -> S] :
        \A i, j \in 1..Cardinality(S) : order[i] = order[j] => i = j}

\* package_directory(directory) when rglob yields the files in this order
package_directory(dirs, files, d, order) ==
    [zip_name |-> ZipNameOf(d),
     entries  |-> [i \in 1..Len(order) |-> ZipEntry(files, order[i], d)]]

\* Reading the archive back: every entry inflated, at the path its name spells
RECURSIVE ExtractAll(_, _)
ExtractAll(entries, out) ==
    IF entries = <<>> THEN out
    ELSE ExtractAll(Tail(entries),
                    [q \in DOMAIN out \cup {PathOf(Head(entries).filename).parts} |->
                        IF q = PathOf(Head(entries).filename).parts
                        THEN Inflate(Head(entries).data, <<>>)
                        ELSE out[q]])

----------------------------------------------------------------------------
(* Specification SpecPack: package_directory applied to bounded trees *)

MaxBytes == 3

ByteValues == {"h", "w"}

FileContents == {<<>>} \cup SeqsUpTo(ByteValues, MaxBytes)

ProjectDir == <<"srv", "generated", "proj">>

PackDirs == { <<"", "srv", "generated", "proj">>, <<"generated", "proj", "">>,
              <<"generated">>, <<".">> }

\* The trees: a.txt with any content or absent, sub/b.txt, sub/deep/c.txt, an
\* empty directory, and a file next to the project directory.
File(bytes) == [k |-> "file", bytes |-> bytes]

PackTrees ==
    {[a |-> a, b |-> b, c |-> c, empty |-> e, other |-> o] :
        a \in {File(x) : x \in FileContents} \cup {None},
        b \in {File(<<>>), File(<<"w", "w">>), None},
        c \in {File(<<"h", "h">>), None}, e \in BOOLEAN,
        o \in {File(<<"w">>), None}}

TreeFiles(t) ==
    LET present == {x \in {<<ProjectDir \o <<"a.txt">>, t.a>>,
                           <<ProjectDir \o <<"sub", "b.txt">>, t.b>>,
                           <<ProjectDir \o <<"sub", "deep", "c.txt">>, t.c>>,
                           <<<<"srv", "generated", "other.txt">>, t.other>>} :
                      x[2] # None}
    IN  [q \in {x[1] : x \in present} |->
            (CHOOSE x \in present : x[1] = q)[2].bytes]

TreeDirs(t) ==
    Prefixes(ProjectDir)
      \cup UNION {ProperPrefixes(q) : q \in DOMAIN TreeFiles(t)}
      \cup (IF t.empty THEN {ProjectDir \o <<"empty">>} ELSE {})

PackIdle ==
    /\ pk_dir = None /\ pk_dirs = {} /\ pk_files = <<>> /\ pk_pc = "idle"
    /\ zip_name = None /\ zip_entries = <<>> /\ pk_extracted = <<>>

InitPack ==
    /\ pk_dir \in PackDirs
    /\ \E t \in PackTrees : pk_dirs = TreeDirs(t) /\ pk_files = TreeFiles(t)
    /\ pk_pc = "call"
    /\ zip_name = None /\ zip_entries = <<>> /\ pk_extracted = <<>>

\* lines 287-296
PackCall ==
    /\ pk_pc = "call"
    /\ \E order \in Orderings(RGlob(pk_dirs, pk_files, PathOf(pk_dir))
                                \cap DOMAIN pk_files) :
          \E r \in {package_directory(pk_dirs, pk_files, PathOf(pk_dir), order)} :
              /\ zip_name' = r.zip_name
              /\ zip_entries' = r.entries
    /\ pk_pc' = "returned"
    /\ UNCHANGED <<pk_dir, pk_dirs, pk_files, pk_extracted>>
    /\ UNCHANGED notPackVars

\* The caller opens the returned bytes and extracts them into an empty place
PackExtract ==
    /\ pk_pc = "returned"
    /\ pk_extracted' = ExtractAll(zip_entries, <<>>)
    /\ pk_pc' = "extracted"
    /\ UNCHANGED <<pk_dir, pk_dirs, pk_files, zip_name, zip_entries>>
    /\ UNCHANGED notPackVars

----------------------------------------------------------------------------
(* project_manager.sanitize_project_slug and the destination directory of   *)
(* an auto-build (greenpt_ui.main).  A project name is the sequence of its  *)
(* characters.                                                              *)

NameChars == {"A", "b", "-", " "}

\* str.lower() of one character
LowerChar(ch) == IF ch = "A" THEN "a" ELSE ch

\* ch.isalnum()
IsAlnum(ch) == ch \in {"a", "b", "A"}

\* str.strip(chars)
RECURSIVE StripChars(_, _)
StripChars(s, chars) ==
    IF s = <<>> THEN s
    ELSE IF Head(s) \in chars THEN StripChars(Tail(s), chars)
    ELSE IF Last(s) \in chars THEN StripChars(SubSeq(s, 1, Len(s) - 1), chars)
    ELSE s

default_slug ==
    <<"g", "r", "e", "e", "n", "p", "t", "-", "p", "r", "o", "j", "e", "c", "t">>

slug_limit == 60

sanitize_project_slug(name) ==
    LET mapped == [i \in DOMAIN name |->
                      IF IsAlnum(LowerChar(name[i])) \/ LowerChar(name[i]) \in {"-", "_"}
                      THEN LowerChar(name[i]) ELSE "-"]
        stripped == StripChars(mapped, {"-", "_"})
        slug == IF stripped = <<>> THEN default_slug ELSE stripped
    IN  SubSeq(slug, 1, IF Len(slug) > slug_limit THEN slug_limit ELSE Len(slug))

\* The clock counts half seconds: datetime.now() is finer than the second
\* that strftime("%Y%m%d-%H%M%S") keeps.
TicksPerSecond == 2

\* datetime.now().strftime("%Y%m%d-%H%M%S")
Timestamp(t) ==
    [date |-> "20250101-00",
     minute |-> ((t \div TicksPerSecond) \div 60) % 60,
     second |-> (t \div TicksPerSecond) % 60]

GENERATED_ROOT == "generated_projects"

\* GENERATED_ROOT / f"{slug}-{timestamp}"
ProjectDirOf(name, t) ==
    [root |-> GENERATED_ROOT, slug |-> sanitize_project_slug(name),
     timestamp |-> Timestamp(t)]

MaxNameLen == 2

MaxClock == 3

MaxBuilds == 2

ProjectNames == {<<>>} \cup SeqsUpTo(NameChars, MaxNameLen)

BuildIdle == clock = 0 /\ gen_dirs = {} /\ builds = <<>>

InitBuild == clock = 0 /\ gen_dirs = {} /\ builds = <<>>

\* Time passes between reruns of the script and between sessions
Tick ==
    /\ clock < MaxClock
    /\ clock' = clock + 1
    /\ UNCHANGED <<gen_dirs, builds>>
    /\ UNCHANGED notBuildVars

\* greenpt_ui.py lines 708-712 of one auto-build, in any session: the
\* directory is named and made, an existing one being accepted (exist_ok)
AutoBuildDir ==
    /\ Len(builds) < MaxBuilds
    /\ \E name \in ProjectNames :
          \E dir \in {ProjectDirOf(name, clock)} :
              /\ gen_dirs' = gen_dirs \cup {dir}
              /\ builds' = Append(builds, [name |-> name, project_dir |-> dir,
                                          existed |-> dir \in gen_dirs])
    /\ UNCHANGED clock
    /\ UNCHANGED notBuildVars

----------------------------------------------------------------------------
(* greenpt_ui.main, lines 469-473: every rerun of the script replaces the    *)
(* active project key of the session by its slug                             *)

MaxReruns == 2

SlugChars == NameChars \cup {"_"}

\* Names around the length limit: a run of letters and a short tail
LongNames ==
    { [i \in 1..n |-> "b"] \o tail :
        n \in (slug_limit - 2)..slug_limit, tail \in SeqsUpTo(SlugChars, MaxNameLen) }

SlugNames == ProjectNames \cup SeqsUpTo(SlugChars, MaxNameLen) \cup LongNames

SlugIdle == active_project = <<>> /\ reruns = 0 /\ first_slug = <<>>

\* st.session_state["active_project"] as the user typed it
InitSlug == active_project \in SlugNames /\ reruns = 0 /\ first_slug = <<>>

\* lines 469-473
Rerun ==
    /\ reruns < MaxReruns
    /\ active_project' = sanitize_project_slug(active_project)
    /\ first_slug' = IF reruns = 0 THEN sanitize_project_slug(active_project)
                     ELSE first_slug
    /\ reruns' = reruns + 1
    /\ UNCHANGED notSlugVars

----------------------------------------------------------------------------
(* greenpt_ui.main, lines 696-758: the auto-build of one script run.  Each   *)
(* stage ends as the component it calls can end: with a value or with one    *)
(* of its errors.                                                            *)

\* Plans generate_build_plan returns
AutoPlans ==
    { ensure_dockerfile_entry(<<ObjectValue("{readme}")>>).plan,
      ensure_dockerfile_entry(<<ObjectValue("{docker}"), ObjectValue("{app}")>>).plan }

PlanFailures ==
    { build_plan_error(1, EmptyPlanError, Str(<<"[", "]">>)), MissingKeyError,
      HTTPError(500), AttributeError }

WriteFailures ==
    { UpstreamError, TypeError, OSError,
      PathTraversalError(<<"..", "x">>, GENERATED_ROOT) }

\* lines 749-758: the two except clauses
ShownAs(error) ==
    IF error.k = "ValueError" THEN "Build plan error" ELSE "Auto-build failed"

\* f"{directory.name}.zip" for the directory of an auto-build
AutoZipName(dir) == [slug |-> dir.slug, timestamp |-> dir.timestamp, ext |-> ".zip"]

AutoProject == <<"A", "b">>

AutoIdle ==
    /\ ab_pc = "idle" /\ ab_steps = <<>> /\ ab_plan = None /\ ab_dir = None
    /\ ab_dirs = {} /\ ab_time = 0 /\ ab_error = None /\ ab_prev = None
    /\ ab_runs = 0 /\ last_build = None

\* project_manager.py line 60: a new project state has no last build
InitAuto ==
    /\ ab_pc = "ready" /\ ab_steps = <<>> /\ ab_plan = None /\ ab_dir = None
    /\ ab_dirs = {} /\ ab_time = 0 /\ ab_error = None /\ ab_prev = None
    /\ ab_runs = 0 /\ last_build = None

\* lines 696-700: a prompt with auto_build set and no blueprint yet starts the
\* build; ab_prev remembers the record as this run found it
AutoBuildStart ==
    /\ ab_pc \in {"ready", "shown", "failed"} /\ ab_runs < MaxBuilds
    /\ ab_runs' = ab_runs + 1
    /\ ab_prev' = last_build
    /\ ab_steps' = <<>> /\ ab_plan' = None /\ ab_dir' = None /\ ab_error' = None
    /\ ab_pc' = "plan"
    /\ UNCHANGED <<ab_dirs, ab_time, last_build>>
    /\ UNCHANGED notAutoVars

AutoFail(error) ==
    /\ ab_error' = [shown |-> ShownAs(error), error |-> error]
    /\ ab_pc' = "failed"

\* lines 701-706
AutoBuildPlan ==
    /\ ab_pc = "plan"
    /\ \/ \E plan \in AutoPlans :
            /\ ab_plan' = plan
            /\ ab_steps' = Append(ab_steps, "plan")
            /\ ab_pc' = "mkdir"
            /\ UNCHANGED ab_error
       \/ \E error \in PlanFailures :
            /\ AutoFail(error)
            /\ UNCHANGED <<ab_plan, ab_steps>>
    /\ UNCHANGED <<ab_dir, ab_dirs, ab_time, ab_prev, ab_runs, last_build>>
    /\ UNCHANGED notAutoVars

\* lines 708-712: the directory is named after the slug and the second, and
\* made
AutoBuildMkdir ==
    /\ ab_pc = "mkdir"
    /\ \E t \in ab_time..MaxClock :
         /\ ab_time' = t
         /\ ab_dir' = ProjectDirOf(AutoProject, t)
         /\ \/ /\ ab_dirs' = ab_dirs \cup {ProjectDirOf(AutoProject, t)}
               /\ ab_steps' = Append(ab_steps, "mkdir")
               /\ ab_pc' = "write"
               /\ UNCHANGED ab_error
            \/ /\ AutoFail(OSError)
               /\ UNCHANGED <<ab_dirs, ab_steps>>
    /\ UNCHANGED <<ab_plan, ab_prev, ab_runs, last_build>>
    /\ UNCHANGED notAutoVars

\* lines 714-733: write_files_from_plan returns or raises; what it wrote
\* before raising stays in the directory
AutoBuildWrite ==
    /\ ab_pc = "write"
    /\ \/ /\ ab_steps' = Append(ab_steps, "write")
          /\ ab_pc' = "package"
          /\ UNCHANGED ab_error
       \/ \E error \in WriteFailures :
            /\ AutoFail(error)
            /\ UNCHANGED ab_steps
    /\ UNCHANGED <<ab_plan, ab_dir, ab_dirs, ab_time, ab_prev, ab_runs, last_build>>
    /\ UNCHANGED notAutoVars

\* line 735
AutoBuildPackage ==
    /\ ab_pc = "package"
    /\ \/ /\ ab_steps' = Append(ab_steps, "package")
          /\ ab_pc' = "record"
          /\ UNCHANGED ab_error
       \/ /\ AutoFail(OSError)
          /\ UNCHANGED ab_steps
    /\ UNCHANGED <<ab_plan, ab_dir, ab_dirs, ab_time, ab_prev, ab_runs, last_build>>
    /\ UNCHANGED notAutoVars

\* Variant: the record is written as soon as the directory exists
AutoBuildRecord_early ==
    /\ ab_pc \in {"write", "record"}
    /\ last_build' = [plan |-> ab_plan, project_dir |-> ab_dir,
                      zip_name |-> AutoZipName(ab_dir)]
    /\ ab_pc' = IF ab_pc = "record" THEN "shown" ELSE ab_pc
    /\ UNCHANGED <<ab_steps, ab_plan, ab_dir, ab_dirs, ab_time, ab_error, ab_prev,
                   ab_runs>>
    /\ UNCHANGED notAutoVars

\* lines 737-748
AutoBuildRecord ==
    /\ ab_pc = "record"
    /\ last_build' = [plan |-> ab_plan, project_dir |-> ab_dir,
                      zip_name |-> AutoZipName(ab_dir)]
    /\ ab_pc' = "shown"
    /\ UNCHANGED <<ab_steps, ab_plan, ab_dir, ab_dirs, ab_time, ab_error, ab_prev,
                   ab_runs>>
    /\ UNCHANGED notAutoVars

----------------------------------------------------------------------------
(* Specification SpecHints: _collect_stack_hints applied to bounded plans,  *)
(* whose fields are what a parsed reply can hold: a text, null, nothing, or *)
(* a JSON array.                                                            *)

\* (value or "").lower(), lines 58, 64, 65: a non-empty list is truthy and
\* has no lower()
LowerRaises(value) == value.k = "list" /\ value.items # <<>>

\* _collect_stack_hints(plan): the hints, or the AttributeError of .lower()
stack_hints_call(plan) ==
    IF \E i \in 1..Len(plan) :
          \/ LowerRaises(plan[i].path)
          \/ LowerRaises(plan[i].description)
          \/ LowerRaises(plan[i].instructions)
    THEN [ok |-> FALSE, error |-> AttributeError]
    ELSE [ok |-> TRUE, value |-> collect_stack_hints(plan)]

HintSpecs ==
    { FileSpec(Str(<<"requirements.txt">>), Str(<<"config">>), Missing, Missing),
      FileSpec(Str(<<"backend", "Requirements.txt">>), Str(<<"backend">>),
               Str(<<"FastAPI", "app">>), Missing),
      FileSpec(Str(<<"requirements.txt", "">>), Missing, None, None),
      FileSpec(Str(<<"PIPFILE">>), Missing, Str(<<"">>), Str(<<"">>)),
      FileSpec(Str(<<"package.json">>), Str(<<"config">>), Missing, List(<<>>)),
      FileSpec(Str(<<"frontend", "index.tsx">>), Str(<<"frontend">>), Missing, Missing),
      FileSpec(Str(<<"README.md">>), Str(<<"docs">>), Str(<<"requirements.txt">>),
               Missing),
      FileSpec(Str(<<"package.json", "..">>), Missing, Missing, Missing),
      FileSpec(None, Str(<<"docs">>), Str(<<"x">>), Missing),
      FileSpec(Missing, Missing, Missing, Missing),
      FileSpec(Str(<<"">>), Str(<<"tests">>), Missing, Str(<<"app.py">>)),
      FileSpec(Str(<<"app.py">>), Str(<<"backend">>), Missing,
               List(<<Str(<<"x">>)>>)) }

HintPlans == {<<>>} \cup SeqsUpTo(HintSpecs, MaxPlan)

HintsIdle == h_plan = None /\ h_pc = "idle" /\ h_out = None

InitHints == h_plan \in HintPlans /\ h_pc = "call" /\ h_out = None

CallHints ==
    /\ h_pc = "call"
    /\ h_out' = stack_hints_call(h_plan)
    /\ h_pc' = "returned"
    /\ UNCHANGED h_plan
    /\ UNCHANGED notHintVars

----------------------------------------------------------------------------
(* Specifications *)

InitSpecPath == InitPath /\ WriteIdle /\ AugIdle /\ ExtractIdle /\ GenIdle /\ PackIdle /\ BuildIdle /\ HintsIdle /\ ChatIdle /\ SlugIdle /\ AutoIdle

NextPath == CallEnsureSafePath

SpecPath == InitSpecPath /\ [][NextPath]_vars

InitSpecWrite == InitWrite /\ PathIdle /\ AugIdle /\ ExtractIdle /\ GenIdle /\ PackIdle /\ BuildIdle /\ HintsIdle /\ ChatIdle /\ SlugIdle /\ AutoIdle

NextWrite ==
    \/ WriteEnter
    \/ WriteResolve
    \/ WriteMkdir
    \/ WriteGenerate
    \/ WriteText
    \/ WriteProgress
    \/ WriteReturn

SpecWrite == InitSpecWrite /\ [][NextWrite]_vars

InitSpecAug == InitAug /\ PathIdle /\ WriteIdle /\ ExtractIdle /\ GenIdle /\ PackIdle /\ BuildIdle /\ HintsIdle /\ ChatIdle /\ SlugIdle /\ AutoIdle

NextAug ==
    \/ AugOnce
    \/ AugTwice

SpecAug == InitSpecAug /\ [][NextAug]_vars

InitSpecExtract == InitExtract /\ PathIdle /\ WriteIdle /\ AugIdle /\ GenIdle /\ PackIdle /\ BuildIdle /\ HintsIdle /\ ChatIdle /\ SlugIdle /\ AutoIdle

NextExtract == CallExtract

SpecExtract == InitSpecExtract /\ [][NextExtract]_vars

InitSpecGen == InitGen /\ PathIdle /\ WriteIdle /\ AugIdle /\ ExtractIdle /\ PackIdle /\ BuildIdle /\ HintsIdle /\ ChatIdle /\ SlugIdle /\ AutoIdle

NextGen ==
    \/ GenCall
    \/ GenReply
    \/ GenChatRaises
    \/ GenParse
    \/ GenExhausted

SpecGen == InitSpecGen /\ [][NextGen]_vars

InitSpecPack == InitPack /\ PathIdle /\ WriteIdle /\ AugIdle /\ ExtractIdle /\ GenIdle /\ BuildIdle /\ HintsIdle /\ ChatIdle /\ SlugIdle /\ AutoIdle

NextPack ==
    \/ PackCall
    \/ PackExtract

SpecPack == InitSpecPack /\ [][NextPack]_vars

InitSpecBuild == InitBuild /\ PathIdle /\ WriteIdle /\ AugIdle /\ ExtractIdle /\ GenIdle /\ PackIdle /\ HintsIdle /\ ChatIdle /\ SlugIdle /\ AutoIdle

NextBuild ==
    \/ Tick
    \/ AutoBuildDir

SpecBuild == InitSpecBuild /\ [][NextBuild]_vars

InitSpecHints == InitHints /\ PathIdle /\ WriteIdle /\ AugIdle /\ ExtractIdle /\ GenIdle /\ PackIdle /\ BuildIdle /\ ChatIdle /\ SlugIdle /\ AutoIdle

NextHints == CallHints

SpecHints == InitSpecHints /\ [][NextHints]_vars

InitSpecChat == InitChat /\ PathIdle /\ WriteIdle /\ AugIdle /\ ExtractIdle /\ GenIdle /\ PackIdle /\ BuildIdle /\ HintsIdle /\ SlugIdle /\ AutoIdle

NextChat ==
    \/ ChatHeadersRaise
    \/ ChatPost
    \/ ChatOk
    \/ ChatTimeout
    \/ ChatRequestError
    \/ ChatContent

SpecChat == InitSpecChat /\ [][NextChat]_vars

InitSpecSlug == InitSlug /\ PathIdle /\ WriteIdle /\ AugIdle /\ ExtractIdle /\ GenIdle /\ PackIdle /\ BuildIdle /\ HintsIdle /\ ChatIdle /\ AutoIdle

NextSlug == Rerun

SpecSlug == InitSpecSlug /\ [][NextSlug]_vars

InitSpecAuto == InitAuto /\ PathIdle /\ WriteIdle /\ AugIdle /\ ExtractIdle /\ GenIdle /\ PackIdle /\ BuildIdle /\ HintsIdle /\ ChatIdle /\ SlugIdle

NextAuto ==
    \/ AutoBuildStart
    \/ AutoBuildPlan
    \/ AutoBuildMkdir
    \/ AutoBuildWrite
    \/ AutoBuildPackage
    \/ AutoBuildRecord

SpecAuto == InitSpecAuto /\ [][NextAuto]_vars

----------------------------------------------------------------------------
(* Properties *)

\* p is the directory root or lies under it (both absolute, resolved).
Inside(root, p) == IsPrefix(root.parts, p.parts)

WriteRoot == PathResolve(PathOf(w_base))

\* C1: while write_files_from_plan runs, every file written and every
\* directory created lies at or under the resolved base directory, and no
\* write_text or mkdir call targets a location outside it.
C1_AllTargetsInsideRoot ==
    w_pc \notin {"idle"} =>
        /\ \A i \in 1..Len(mkdir_calls) : Inside(WriteRoot, mkdir_calls[i])
        /\ \A i \in 1..Len(write_calls) : Inside(WriteRoot, write_calls[i])
        /\ \A f \in DOMAIN fs_files : IsPrefix(WriteRoot.parts, f)
        /\ \A d \in fs_dirs \ Prefixes(WriteRoot.parts) : IsPrefix(WriteRoot.parts, d)

\* C2: ensure_safe_path(base, rel) returns the resolved target, unclamped,
\* exactly when the target is the resolved base or nested under it; for every
\* other rel it fails with an error carrying rel and the base directory.
\* /projects/foo with ../../etc/passwd fails; with backend/app.py it returns
\* /projects/foo/backend/app.py.
C2_SafePathContract ==
    sp_pc = "returned" =>
        LET base   == PathOf(base_dir)
            rel    == PathOf(relative_path)
            root   == PathResolve(base)
            target == PathResolve(PathJoin(base, rel))
        IN  /\ Inside(root, target) =>
                sp_out.ok /\ sp_out.value = target
            /\ ~Inside(root, target) =>
                /\ ~sp_out.ok
                /\ sp_out.error.k = "ValueError"
                /\ sp_out.error.relative_path = rel
                /\ sp_out.error.base_dir = base
            /\ (base_dir = <<"", "projects", "foo">>
                    /\ relative_path = <<"..", "..", "etc", "passwd">>) =>
                ~sp_out.ok
            /\ (base_dir = <<"", "projects", "foo">>
                    /\ relative_path = <<"backend", "app.py">>) =>
                /\ sp_out.ok
                /\ sp_out.value =
                     [abs |-> TRUE, parts |-> <<"projects", "foo", "backend", "app.py">>]

\* C2 witness: the traversal of the example has been refused, with an error
\* that names the path and the base.
C2_Witness ==
    /\ sp_pc = "returned"
    /\ base_dir = <<"", "projects", "foo">>
    /\ relative_path = <<"..", "..", "etc", "passwd">>
    /\ ~sp_out.ok
    /\ sp_out.error.relative_path.parts = <<"..", "..", "etc", "passwd">>
    /\ sp_out.error.base_dir.parts = <<"projects", "foo">>

\* The final path segment of a path string: its last piece that is neither
\* empty (a doubled or trailing slash) nor ".".
FinalSegment(value) ==
    IF value.k # "str" THEN ""
    ELSE LET pieces == Without(value.v, {"", "."})
         IN  IF pieces = <<>> THEN "" ELSE Last(pieces)

\* A container-descriptor entry: a mapping whose path has the final segment
\* Dockerfile in any letter case.
ContainerDescriptor(spec) ==
    spec.k = "dict" /\ Lower(FinalSegment(spec.path)) = "dockerfile"

DescriptorCount(plan) ==
    Cardinality({i \in 1..Len(plan) : ContainerDescriptor(plan[i])})

\* C7: the result of ensure_dockerfile_entry has a container-descriptor entry,
\* and is the input itself or the input with one entry appended, whose path
\* is Dockerfile and whose type is infrastructure.
C7_AugmenterResult ==
    a_pc = "once" =>
        /\ DescriptorCount(a_once) >= 1
        /\ IsPrefix(a_input, a_once)
        /\ Len(a_once) <= Len(a_input) + 1
        /\ Len(a_once) = Len(a_input) + 1 =>
              /\ Last(a_once).path = Str(<<"Dockerfile">>)
              /\ Last(a_once).type = Str(<<"infrastructure">>)

\* C7 witness: a non-empty plan without a descriptor has got one appended.
C7_Witness ==
    /\ a_pc = "once"
    /\ Len(a_input) >= 2
    /\ DescriptorCount(a_input) = 0
    /\ Len(a_once) = Len(a_input) + 1

\* C8 as stated: running ensure_dockerfile_entry twice yields the plan of
\* running it once, and that plan has exactly one container-descriptor entry.
C8_IdempotentExactlyOne ==
    a_pc = "twice" => a_twice = a_once /\ DescriptorCount(a_twice) = 1

\* C8 amended: running it twice yields the plan of running it once, which has
\* as many container-descriptor entries as the input had, and one when the
\* input had none.
C8_Idempotent ==
    a_pc = "twice" =>
        /\ a_twice = a_once
        /\ DescriptorCount(a_twice) =
             (IF DescriptorCount(a_input) = 0 THEN 1 ELSE DescriptorCount(a_input))

\* C8 witness: the second run met the descriptor that the first run appended.
C8_Witness ==
    /\ a_pc = "twice"
    /\ DescriptorCount(a_input) = 0
    /\ Len(a_input) >= 1
    /\ DescriptorCount(a_twice) = 1
    /\ a_inferred = 1

\* C9: a plan that holds an entry whose final path segment is Dockerfile, in
\* any letter case and at any depth, is returned unchanged, and Stack
\* Inference is not run.
C9_UnchangedWhenPresent ==
    (a_pc = "once" /\ DescriptorCount(a_input) >= 1) =>
        /\ a_once = a_input
        /\ a_plan = a_input
        /\ a_inferred = 0

\* C9 witness: the only descriptor is a lower-case or nested one.
C9_Witness ==
    /\ a_pc = "once"
    /\ \E i \in 1..Len(a_input) : a_input[i].path = Str(<<"infra", "docker", "Dockerfile">>)
    /\ \E i \in 1..Len(a_input) : a_input[i].path = Str(<<"dockerfile">>)
    /\ \A i \in 1..Len(a_input) : a_input[i].path # Str(<<"Dockerfile">>)
    /\ a_once = a_input

\* The reply yields a non-empty array.
YieldsPlan(text) ==
    \E r \in {extract_json_array(text)} :
        r.ok /\ r.value.k = "list" /\ r.value.items # <<>>

\* The reply parses, but not to a non-empty array.
YieldsNonPlan(text) ==
    \E r \in {extract_json_array(text)} :
        r.ok /\ (r.value.k # "list" \/ r.value.items = <<>>)

\* The error generate_build_plan records for a reply that yields no plan.
FailureOf(text) ==
    LET r == extract_json_array(text)
    IN  IF r.ok THEN EmptyPlanError ELSE r.error

\* C3: the model calls of generate_build_plan are made one at a time, at most
\* max_retries + 1 of them; the first carries the base prompt, every later
\* one the base prompt with the reminder appended; and no call follows an
\* attempt that produced a non-empty array.
C3_PromptSequence ==
    g_pc # "idle" =>
        /\ Len(g_prompts) <= max_retries + 1
        /\ Len(g_prompts) = attempt
        /\ Len(g_replies) <= Len(g_prompts)
        /\ Len(g_prompts) <= Len(g_replies) + 1
        /\ g_pc = "for" => Len(g_prompts) = Len(g_replies)
        /\ (g_pc = "chat" \/ (g_pc = "raised" /\ g_out.error \in ChatFailures))
              <=> Len(g_prompts) = Len(g_replies) + 1
        /\ \A i \in 1..Len(g_prompts) :
              g_prompts[i] = IF i = 1 THEN base_prompt
                             ELSE base_prompt \o <<Reminder>>
        /\ \A i \in 1..Len(g_replies) :
              YieldsPlan(g_replies[i]) =>
                  /\ i = Len(g_replies)
                  /\ Len(g_prompts) = i
                  /\ g_pc \in {"parse", "returned", "raised"}

\* C3 witness: the second of three allowed calls, sent with the reminder,
\* succeeded and ended the loop.
C3_Witness ==
    /\ g_pc = "returned"
    /\ max_retries = 2
    /\ g_prompts = <<base_prompt, base_prompt \o <<Reminder>> >>
    /\ Len(g_replies) = 2

AllAttemptsFailed ==
    /\ Len(g_replies) = max_retries + 1
    /\ \A i \in 1..Len(g_replies) : ~YieldsPlan(g_replies[i])

\* C4: when all max_retries + 1 attempts fail to yield a non-empty array,
\* generate_build_plan fails with the build-plan error, which carries the
\* attempt count and the error and raw reply of the final attempt; no plan is
\* returned and the Plan Augmenter has not run.
C4_ExhaustedError ==
    (g_pc \in {"returned", "raised"} /\ AllAttemptsFailed) =>
        /\ g_pc = "raised"
        /\ g_out =
             [outcome |-> "raise",
              error |-> [k |-> "ValueError",
                         what |-> "Could not parse build plan JSON",
                         attempts |-> max_retries + 1,
                         last_error |-> FailureOf(Last(g_replies)),
                         raw_response |-> Last(g_replies)]]
        /\ g_augmented = 0

\* C4 witness: two attempts failed in different ways, and the error is the
\* one of the second.
C4_Witness ==
    /\ g_pc = "raised"
    /\ max_retries = 1
    /\ g_replies = <<Str(<<"x">>), Str(<<"[", "]">>)>>
    /\ g_out.error.last_error = EmptyPlanError
    /\ g_out.error.raw_response = Str(<<"[", "]">>)
    /\ g_out.error.attempts = 2

Readme == FileSpec(Str(<<"README.md">>), Str(<<"docs">>), Str(<<"x">>), Str(<<"y">>))

\* C5: the plan returned is the array of the first successful reply, passed
\* once through the Plan Augmenter, with nothing of earlier replies in it.
\* Prose and then a single-README array succeed on attempt 2; a single-README
\* array on the first call gives the README entry followed by a Dockerfile
\* entry.
C5_ReturnedPlan ==
    g_pc = "returned" =>
        \E n \in {Len(g_replies)} : \E r \in {extract_json_array(g_replies[n])} :
            /\ YieldsPlan(g_replies[n])
            /\ \A i \in 1..(n - 1) : ~YieldsPlan(g_replies[i])
            /\ g_out.outcome = "return"
            /\ g_augmented = 1
            /\ IsPrefix(r.value.items, g_out.plan)
            /\ IF DescriptorCount(r.value.items) >= 1
               THEN g_out.plan = r.value.items
               ELSE /\ Len(g_out.plan) = Len(r.value.items) + 1
                    /\ Last(g_out.plan).path = Str(<<"Dockerfile">>)
                    /\ Last(g_out.plan).type = Str(<<"infrastructure">>)
            /\ g_replies[n] = Str(<<"[", "{readme}", "]">>) =>
                  /\ Len(g_out.plan) = 2
                  /\ g_out.plan[1] = Readme
                  /\ g_out.plan[2].path = Str(<<"Dockerfile">>)

\* C5 witness: unparseable prose, then a valid array.
C5_Witness ==
    /\ g_pc = "returned"
    /\ g_replies = <<Str(<<"x">>), Str(<<"[", "{readme}", "]">>)>>
    /\ Len(g_out.plan) = 2

\* C6: a reply that parses to something other than a non-empty array (an
\* empty array, an object, a number, a string, null) is handled as a parse
\* failure: its error and raw text are recorded, the attempt is counted, the
\* loop goes on to the next attempt or to the build-plan error, and the
\* value is neither returned nor given to the Plan Augmenter.
C6_NonSequenceIsFailure ==
    (g_pc \notin {"idle", "parse"} /\ g_replies # <<>>
         /\ YieldsNonPlan(Last(g_replies))) =>
        /\ last_error = EmptyPlanError
        /\ last_raw = Last(g_replies)
        /\ g_augmented = 0
        /\ g_pc # "returned"
        /\ attempt >= Len(g_replies)
        /\ g_pc = "for" => attempt = Len(g_replies)
        /\ (g_pc = "for" /\ attempt <= max_retries) => ENABLED GenCall
        /\ (g_pc = "for" /\ attempt = max_retries + 1) => ENABLED GenExhausted
        /\ g_pc = "raised" =>
              \/ g_out.error \in ChatFailures
              \/ g_out.error =
                   build_plan_error(max_retries, EmptyPlanError, Last(g_replies))

\* C6 witness: a JSON object was received with budget left, and the loop is
\* about to make the next attempt.
C6_Witness ==
    /\ g_pc = "for"
    /\ attempt <= max_retries
    /\ g_replies # <<>>
    /\ Last(g_replies) = Str(<<"{readme}">>)
    /\ last_error = EmptyPlanError

\* A fenced code block with nothing inside: an opening fence, optionally the
\* json tag, only whitespace, and the closing fence.
EmptyFencedBlock(text) ==
    /\ text.k = "str"
    /\ \E c \in {Strip(text.v)} :
          /\ Len(c) >= 2
          /\ Head(c) = FENCE
          /\ Last(c) = FENCE
          /\ \E from \in {IF Len(c) >= 3 /\ c[2] = "json" THEN 3 ELSE 2} :
                \A i \in from..(Len(c) - 1) : c[i] \in Whitespace

BlankText(text) == text.k # "str" \/ Strip(text.v) = <<>>

\* C10: extract_json_array fails with the empty-response error, without
\* attempting JSON parsing, when the raw text is None, empty or whitespace,
\* and when it is a fenced code block whose interior is empty.
C10_EmptyIsEmptyError ==
    (x_pc = "returned" /\ (BlankText(raw_text) \/ EmptyFencedBlock(raw_text))) =>
        /\ ~x_out.ok
        /\ x_out.error \in {EmptyResponseError, EmptyFenceError}
        /\ x_out.loads = <<>>

----------------------------------------------------------------------------
(* Properties of extract_json_array on fenced and on embedded JSON *)

HasChunk(t, c) == \E i \in DOMAIN t : t[i] = c

\* The first position of the text inside the fences of c: after the fence, or
\* after a language tag that whitespace separates from the content.
InnerStarts(c) ==
    {2} \cup {from \in {3} : /\ Len(c) >= 4
                             /\ c[2] \in {"json", "JSON", "x"}
                             /\ c[3] \in Whitespace}

\* The texts inside the fences of a fenced block that are valid JSON.
FencedJson(text) ==
    IF text.k # "str" THEN {}
    ELSE LET c == Strip(text.v)
         IN  IF Len(c) < 3 \/ Head(c) # FENCE \/ Last(c) # FENCE THEN {}
             ELSE {inner \in {SubSeq(c, from, Len(c) - 1) : from \in InnerStarts(c)} :
                     /\ ~HasChunk(inner, FENCE)
                     /\ json_loads(inner).ok}

\* C11: for raw text that is valid JSON wrapped in a fenced code block, with
\* the json tag, another tag or none, the fences on their own lines or on the
\* line of the content, extract_json_array returns the value that parsing the
\* unwrapped text gives.
C11_FencedEqualsUnwrapped ==
    x_pc = "returned" =>
        \A inner \in FencedJson(raw_text) :
            /\ x_out.ok
            /\ x_out.value = json_loads(inner).value

\* Bracket depth of prose: [ok, depth], ok false once a "]" closes nothing
RECURSIVE BracketDepth(_, _)
BracketDepth(t, depth) ==
    IF t = <<>> THEN [ok |-> TRUE, depth |-> depth]
    ELSE IF Head(t) = "[" THEN BracketDepth(Tail(t), depth + 1)
    ELSE IF Head(t) = "]"
         THEN IF depth = 0 THEN [ok |-> FALSE, depth |-> 0]
              ELSE BracketDepth(Tail(t), depth - 1)
    ELSE BracketDepth(Tail(t), depth)

Balanced(t) == BracketDepth(t, 0) = [ok |-> TRUE, depth |-> 0]

\* The ways to read a text as prose, a JSON array, prose: [before, array, after]
Embeddings(text) ==
    IF text.k # "str" \/ HasChunk(text.v, FENCE) THEN {}
    ELSE LET t == text.v
         IN  {e \in {[before |-> SubSeq(t, 1, i - 1), array |-> SubSeq(t, i, j),
                      after |-> SubSeq(t, j + 1, Len(t))] :
                        i \in 1..Len(t), j \in 1..Len(t)} :
                /\ e.array # <<>>
                /\ Head(e.array) = "["
                /\ Last(e.array) = "]"
                /\ json_loads(e.array).ok}

ReturnsArray(out, array) == out.ok /\ out.value = json_loads(array).value

C13_OriginalErrorPropagated ==
    (x_pc = "returned" /\ ~x_out.ok /\ x_out.loads # <<>>) =>
        x_out.error = JSONDecodeError(x_out.loads[1])

----------------------------------------------------------------------------
(* Properties of write_files_from_plan *)

\* The sandbox-resolved path of a plan entry
ResolvedPathOf(spec) ==
    ensure_safe_path(PathOf(w_base),
                     PathOf(DictGet(spec.path, Str(<<"output.txt">>)).v)).value

\* C14: a run of write_files_from_plan that completes on a plan of n entries
\* has made n model calls, one per entry in plan order, and returns n absolute
\* paths, the i-th the sandbox-resolved path of entry i; each reply is written
\* unchanged as the whole content of its entry's file, replacing what was there.
C14_CompletedRun ==
    /\ [](w_pc = "done" =>
            /\ Len(chat_calls) = Len(w_plan)
            /\ \A i \in 1..Len(w_plan) : chat_calls[i] = FilePrompt(w_plan[i])
            /\ Len(created_files) = Len(w_plan)
            /\ \A i \in 1..Len(w_plan) :
                  /\ created_files[i].abs
                  /\ created_files[i] = ResolvedPathOf(w_plan[i])
                  /\ created_files[i].parts \in DOMAIN fs_files
            /\ write_calls = created_files)
    /\ [][w_pc # "generate" => content' = content]_vars
    /\ [][(w_pc = "generate" /\ w_pc' = "write") =>
            /\ Len(chat_calls') = idx
            /\ content' \in Contents]_vars
    /\ [][(w_pc = "write" /\ w_pc' = "progress") =>
            /\ target_path = ResolvedPathOf(w_plan[idx])
            /\ DOMAIN fs_files' = DOMAIN fs_files \cup {target_path.parts}
            /\ fs_files'[target_path.parts] = content
            /\ \A f \in DOMAIN fs_files \ {target_path.parts} : fs_files'[f] = fs_files[f]]_vars

\* A completed run over three entries, two of them naming the same file with
\* different replies, one in a subdirectory.
C14_Witness ==
    /\ w_pc = "done"
    /\ Len(w_plan) = 3
    /\ created_files[1] = created_files[3]
    /\ created_files[2] # created_files[1]
    /\ Len(created_files[2].parts) > Len(created_files[1].parts)
    /\ fs_files[created_files[1].parts] = "text2"
    /\ fs_files[created_files[2].parts] = "text1"

\* C15: with a progress callback, the callback is called once per entry with
\* (index, total, spec), index running 1, 2, ... and total the plan length;
\* the call for entry i comes after entry i's file is written and its path
\* appended to the result, and before any work on entry i+1.
C15_ProgressCallback ==
    /\ [](w_pc # "idle" =>
            /\ ~w_cb => cb_calls = <<>>
            /\ w_cb =>
                /\ \A i \in 1..Len(cb_calls) : cb_calls[i] = <<i, Len(w_plan), w_plan[i]>>
                /\ Len(cb_calls) <= Len(created_files)
                /\ Len(created_files) <= Len(cb_calls) + 1
                /\ Len(mkdir_calls) <= Len(cb_calls) + 1
                /\ Len(chat_calls) <= Len(cb_calls) + 1
                /\ Len(write_calls) <= Len(cb_calls) + 1
                /\ w_pc = "done" => Len(cb_calls) = Len(w_plan))
    /\ [][Len(cb_calls') > Len(cb_calls) =>
            /\ Len(cb_calls') = idx
            /\ Len(created_files) = idx
            /\ created_files[idx] = target_path
            /\ target_path.parts \in DOMAIN fs_files
            /\ fs_files[target_path.parts] = content
            /\ Len(mkdir_calls) = idx /\ Len(chat_calls) = idx /\ Len(write_calls) = idx
            /\ Len(mkdir_calls') = idx /\ Len(chat_calls') = idx /\ Len(write_calls') = idx]_vars
    /\ [][idx' > idx => (w_cb => Len(cb_calls) = idx)]_vars

\* A run with a callback that reported three entries and completed.
C15_Witness ==
    /\ w_pc = "done"
    /\ w_cb
    /\ Len(cb_calls) = 3
    /\ cb_calls[3][1] = 3

\* An entry whose path resolves outside the base directory
Escapes(spec) ==
    LET pathValue == DictGet(spec.path, Str(<<"output.txt">>))
    IN  /\ pathValue.k = "str"
        /\ ~Inside(WriteRoot, PathResolve(PathJoin(PathOf(w_base), PathOf(pathValue.v))))

EscapeErrorOf(spec) ==
    PathTraversalError(PathOf(DictGet(spec.path, Str(<<"output.txt">>)).v),
                       PathOf(w_base))

\* C16: when the entry reached at position k resolves outside the base
\* directory, write_files_from_plan fails there with the path-traversal error
\* before any mkdir, model call or write for entry k; nothing later is
\* processed or retried, the callback has reported entries 1..k-1 only, and
\* the files of entries 1..k-1 are on disk.
C16_TraversalAborts ==
    /\ []((w_pc \notin {"idle", "call"} /\ idx >= 1 /\ Escapes(w_plan[idx])) =>
            /\ w_pc = "raised"
            /\ w_error = EscapeErrorOf(w_plan[idx])
            /\ Len(mkdir_calls) = idx - 1
            /\ Len(chat_calls) = idx - 1
            /\ Len(write_calls) = idx - 1
            /\ Len(created_files) = idx - 1
            /\ Len(cb_calls) = IF w_cb THEN idx - 1 ELSE 0
            /\ \A i \in 1..(idx - 1) :
                  /\ ~Escapes(w_plan[i])
                  /\ ResolvedPathOf(w_plan[i]).parts \in DOMAIN fs_files)
    /\ [][w_pc # "raised"]_vars

\* The third entry escapes after two entries were written and reported.
C16_Witness ==
    /\ w_pc = "raised"
    /\ idx = 3
    /\ Escapes(w_plan[3])
    /\ w_cb
    /\ Len(cb_calls) = 2
    /\ Cardinality(DOMAIN fs_files) = 2

----------------------------------------------------------------------------
(* Properties of package_directory *)

PackRoot == PathResolve(PathOf(pk_dir)).parts

\* The regular files below the directory, by their path relative to it
FilesBelow ==
    {SubSeq(f, Len(PackRoot) + 1, Len(f)) :
        f \in {g \in DOMAIN pk_files : IsPrefix(PackRoot, g) /\ g # PackRoot}}

\* The directory's own name: its last piece that is neither empty nor "."
OwnName ==
    LET pieces == {i \in 1..Len(pk_dir) : pk_dir[i] \notin {"", "."}}
    IN  IF pieces = {} THEN ""
        ELSE pk_dir[CHOOSE i \in pieces : \A j \in pieces : j <= i]

\* C17: package_directory(d) returns the name <d's own name>.zip and an
\* archive with one entry per regular file found recursively under d, stored
\* at its path relative to d, and no entry for a directory; extracting it
\* gives the same bytes at the same relative paths; an empty directory gives
\* an archive without entries.
C17_PackageRoundTrip ==
    /\ pk_pc \in {"returned", "extracted"} =>
          /\ zip_name = <<OwnName, ".zip">>
          /\ Len(zip_entries) = Cardinality(FilesBelow)
          /\ {zip_entries[i].filename : i \in 1..Len(zip_entries)} = FilesBelow
          /\ \A i \in 1..Len(zip_entries) :
                PackRoot \o zip_entries[i].filename \notin pk_dirs
          /\ FilesBelow = {} => zip_entries = <<>>
    /\ pk_pc = "extracted" =>
          /\ DOMAIN pk_extracted = FilesBelow
          /\ \A f \in FilesBelow : pk_extracted[f] = pk_files[PackRoot \o f]

\* a.txt and sub/b.txt with different contents, one of them with a repeated
\* byte, next to an empty directory, packaged from a relative directory and
\* read back.
C17_Witness ==
    /\ pk_pc = "extracted"
    /\ pk_dir = <<"generated", "proj", "">>
    /\ ProjectDir \o <<"empty">> \in pk_dirs
    /\ DOMAIN pk_extracted = {<<"a.txt">>, <<"sub", "b.txt">>}
    /\ pk_extracted[<<"a.txt">>] = <<"h", "w", "w">>
    /\ pk_extracted[<<"sub", "b.txt">>] = <<"w", "w">>
    /\ \E i \in 1..2 : \E j \in 1..Len(zip_entries[i].data) :
          zip_entries[i].data[j].k = "match"

\* An empty directory packaged: no entries.
C17_WitnessEmpty ==
    /\ pk_pc = "extracted"
    /\ pk_dir = <<"", "srv", "generated", "proj">>
    /\ ProjectDir \o <<"empty">> \in pk_dirs
    /\ DOMAIN pk_files = {<<"srv", "generated", "other.txt">>}
    /\ zip_entries = <<>>

----------------------------------------------------------------------------
(* Properties of the auto-build's destination directory *)

\* C18: any two builds of the same project name, at any times, get distinct
\* destination directories: no build uses a directory an earlier build used.
C18_DistinctBuildDirs ==
    \A i, j \in 1..Len(builds) :
        (i < j /\ builds[i].name = builds[j].name) =>
            /\ builds[i].project_dir # builds[j].project_dir
            /\ ~builds[j].existed

----------------------------------------------------------------------------
(* Properties of _collect_stack_hints *)

\* The paths, in plan order, of the entries whose final path segment is, in
\* any letter case, one of the names
RECURSIVE PathsNamed(_, _)
PathsNamed(plan, names) ==
    IF plan = <<>> THEN <<>>
    ELSE (IF Lower(FinalSegment(Head(plan).path)) \in names
          THEN <<Head(plan).path.v>> ELSE <<>>)
         \o PathsNamed(Tail(plan), names)

\* C19: python_manifests and node_manifests are the paths, in plan order, of
\* the entries whose final path segment is a known Python or Node manifest
\* name in any letter case; a non-empty list forces has_python or has_node.
\* requirements.txt gives has_python and python_manifests = [requirements.txt];
\* frontend/index.tsx alone gives has_frontend and two empty lists.
C19_ManifestLists ==
    (h_pc = "returned" /\ h_out.ok) =>
        /\ h_out.value.python_manifests =
              PathsNamed(h_plan, {"requirements.txt", "pyproject.toml", "poetry.lock",
                                  "pipfile", "pipfile.lock"})
        /\ h_out.value.node_manifests =
              PathsNamed(h_plan, {"package.json", "package-lock.json", "yarn.lock",
                                  "pnpm-lock.yaml"})
        /\ h_out.value.python_manifests # <<>> => h_out.value.has_python
        /\ h_out.value.node_manifests # <<>> => h_out.value.has_node
        /\ h_plan = <<FileSpec(Str(<<"requirements.txt">>), Str(<<"config">>),
                               Missing, Missing)>> =>
              /\ h_out.value.has_python
              /\ h_out.value.python_manifests = <<<<"requirements.txt">>>>
        /\ h_plan = <<FileSpec(Str(<<"frontend", "index.tsx">>), Str(<<"frontend">>),
                               Missing, Missing)>> =>
              /\ h_out.value.has_frontend
              /\ h_out.value.python_manifests = <<>>
              /\ h_out.value.node_manifests = <<>>

\* Two Python manifests in different letter case and depth around a Node
\* manifest, collected in plan order.
C19_Witness ==
    /\ h_pc = "returned"
    /\ h_out.ok
    /\ Len(h_plan) = 3
    /\ h_out.value.python_manifests = <<<<"backend", "Requirements.txt">>, <<"PIPFILE">>>>
    /\ h_out.value.node_manifests = <<<<"package.json">>>>

\* C20: _collect_stack_hints never raises: for every plan it returns hints
\* with the five fields.
C20_HintsNeverRaise ==
    h_pc = "returned" =>
        /\ h_out.ok
        /\ DOMAIN h_out.value = {"has_python", "has_node", "has_frontend",
                                 "python_manifests", "node_manifests"}

\* For plans whose fields are texts, null or missing, the hints are returned.
TextFieldsOnly(plan) ==
    \A i \in 1..Len(plan) :
        /\ plan[i].path.k # "list"
        /\ plan[i].description.k # "list"
        /\ plan[i].instructions.k # "list"

HintsForTextFields ==
    (h_pc = "returned" /\ TextFieldsOnly(h_plan)) =>
        /\ h_out.ok
        /\ DOMAIN h_out.value = {"has_python", "has_node", "has_frontend",
                                 "python_manifests", "node_manifests"}

----------------------------------------------------------------------------
(* Properties of _dockerfile_instruction_text *)

\* The names of the rules, among the given ones, that the instructions of the
\* synthesized Dockerfile entry hold
RulesAmong(spec, names) ==
    {spec.instructions.lines[i].rule : i \in 1..Len(spec.instructions.lines)}
        \cap names

Synthesized ==
    /\ a_pc \in {"once", "twice"}
    /\ Len(a_once) = Len(a_input) + 1

\* C21: the stack-specific rule is chosen by priority: the hybrid rule when
\* Python and Node manifests are both present; else the manifest-list rule
\* when Python manifests are present; else the generic rule on a Python
\* signal; for Node, without both kinds of manifest, the manifest rule when
\* Node manifests are present, else the build-stage rule on a Node or
\* frontend signal.
C21_RuleByPriority ==
    Synthesized =>
        LET hints == collect_stack_hints(a_input)
            both == hints.python_manifests # <<>> /\ hints.node_manifests # <<>>
        IN  /\ RulesAmong(Last(a_once), {"hybrid", "python-manifests", "python-generic"})
                 = IF both THEN {"hybrid"}
                   ELSE IF hints.python_manifests # <<>> THEN {"python-manifests"}
                   ELSE IF hints.has_python THEN {"python-generic"}
                   ELSE {}
            /\ ~both =>
                 RulesAmong(Last(a_once), {"node-manifests", "node-build-stage"})
                   = IF hints.node_manifests # <<>> THEN {"node-manifests"}
                     ELSE IF hints.has_node \/ hints.has_frontend
                          THEN {"node-build-stage"}
                     ELSE {}

\* C21 as the code has it: the Python rule (manifest list, else generic on a
\* Python signal) and the Node rule (manifest list, else build stage on a Node
\* or frontend signal) are both emitted, each naming the manifests found, and
\* the hybrid rule is emitted in addition exactly when a Python and a Node
\* signal are both present.
C21_RulesAdditive ==
    Synthesized =>
        LET hints == collect_stack_hints(a_input)
            lines == Last(a_once).instructions.lines
        IN  /\ RulesAmong(Last(a_once), {"python-manifests", "python-generic"})
                 = IF hints.python_manifests # <<>> THEN {"python-manifests"}
                   ELSE IF hints.has_python THEN {"python-generic"}
                   ELSE {}
            /\ RulesAmong(Last(a_once), {"node-manifests", "node-build-stage"})
                 = IF hints.node_manifests # <<>> THEN {"node-manifests"}
                   ELSE IF hints.has_node \/ hints.has_frontend
                        THEN {"node-build-stage"}
                   ELSE {}
            /\ ("hybrid" \in RulesAmong(Last(a_once), {"hybrid"}))
                 <=> (hints.has_python /\ hints.has_node)
            /\ \A i \in 1..Len(lines) :
                 /\ lines[i].rule = "python-manifests"
                      => lines[i].manifests = PathsNamed(a_input, python_manifest_names)
                 /\ lines[i].rule = "node-manifests"
                      => lines[i].manifests = PathsNamed(a_input, node_manifest_names)

C21_Witness ==
    /\ Synthesized
    /\ RulesAmong(Last(a_once), {"hybrid", "python-manifests", "node-manifests"})
         = {"hybrid", "python-manifests", "node-manifests"}

C21_WitnessNoManifests ==
    /\ Synthesized
    /\ collect_stack_hints(a_input).python_manifests = <<>>
    /\ collect_stack_hints(a_input).node_manifests = <<>>
    /\ RulesAmong(Last(a_once), {"hybrid", "python-generic", "node-build-stage"})
         = {"hybrid", "python-generic", "node-build-stage"}

\* The digest lines of the instructions of the synthesized entry, in order
DigestOf(spec) ==
    LET lines == spec.instructions.lines
        first == CHOOSE i \in 1..(Len(lines) + 1) :
                    /\ \A h \in 1..(i - 1) : lines[h].rule # "file"
                    /\ i <= Len(lines) => lines[i].rule = "file"
    IN  [i \in 1..(Len(lines) + 1 - first) |-> lines[first + i - 1]]

NonBlank(value) ==
    /\ value.k = "str"
    /\ \E i \in 1..Len(value.v) : value.v[i] # ""

Listed(n) == IF n < max_items THEN n ELSE max_items

\* C22: the digest lists the first min(n, 8) entries of the n-entry input plan
\* in plan order, each as its path plus its description when that is not
\* blank and as the path alone otherwise, followed by one ellipsis line
\* exactly when n > 8; the synthesized Dockerfile entry is never listed.
C22_DigestOfPlan ==
    Synthesized =>
        LET digest == DigestOf(Last(a_once))
            n == Len(a_input)
        IN  /\ Len(digest) = Listed(n) + (IF n > max_items THEN 1 ELSE 0)
            /\ \A i \in 1..Len(digest) : digest[i].rule = "file"
            /\ \A i \in 1..Listed(n) :
                 /\ Truthy(a_input[i].path) => digest[i].file.path = a_input[i].path.v
                 /\ digest[i].file.description
                      = IF NonBlank(a_input[i].description)
                        THEN StripText(a_input[i].description.v)
                        ELSE EmptyStr
            /\ n > max_items => digest[Len(digest)].file = Ellipsis
            /\ \A i \in 1..Listed(n) : digest[i].file # Ellipsis
            /\ \A i \in 1..Len(digest) :
                 digest[i].file.path # Last(a_once).path.v
            /\ \A i \in 1..(Len(Last(a_once).instructions.lines) - Len(digest)) :
                 Last(a_once).instructions.lines[i].rule # "file"

C22_Witness ==
    /\ Synthesized
    /\ Len(a_input) > max_items
    /\ Len(DigestOf(Last(a_once))) = max_items + 1
    /\ \E i \in 1..max_items : ~Truthy(a_input[i].path)

C22_WitnessAtLimit ==
    /\ Synthesized
    /\ Len(a_input) = max_items
    /\ Len(DigestOf(Last(a_once))) = max_items
    /\ \E i \in 1..max_items :
         /\ a_input[i].description.k = "str"
         /\ ~NonBlank(a_input[i].description)

----------------------------------------------------------------------------
(* Properties of call_greenpt_chat *)

BlankValue(value) ==
    value.k # "str" \/ \A i \in 1..Len(value.v) : value.v[i] = ""

NoChoices(body) ==
    body.choices.k # "list" \/ body.choices.items = <<>>

\* neither the first choice nor the summary and message fields hold text
NoContent(body) ==
    /\ ~NoChoices(body)
    /\ LET message == Head(body.choices.items).message
       IN  message.k # "dict" \/ message.content.k \in {"Missing", "None"}
             \/ (message.content.k = "str" /\ BlankValue(message.content))
    /\ BlankValue(body.summary)
    /\ BlankValue(body.message)

Trimmed(text) == Head(text) # "" /\ Last(text) # ""

RetriedErrors == {"Timeout", "HTTPError", "ConnectionError"}

ChatState ==
    /\ Len(c_requests) <= c_max_retries + 1
    /\ \A i \in 1..(Len(c_requests) - 1) : c_requests[i] \in RetriedErrors
    /\ \A i \in 1..Len(c_requests) : c_requests[i] = "pending" => c_pc = "post"
    /\ Len(c_sleeps) = c_attempt /\ c_attempt <= c_max_retries
    /\ (c_pc # "idle" /\ ~c_key) =>
          /\ c_requests = <<>> /\ c_attempt = 0
          /\ c_pc \in {"for", "raised"}
          /\ c_pc = "raised" => c_out.error = MissingKeyError
    /\ c_pc = "returned" =>
          /\ c_out.outcome = "return"
          /\ c_out.text.k = "str"
          /\ c_out.text.v # EmptyStr
          /\ Trimmed(c_out.text.v)
          /\ Last(c_requests) = "ok"
    /\ (c_pc \in {"returned", "raised"} /\ c_response # None /\ c_response # NotJson
          /\ (NoChoices(c_response) \/ NoContent(c_response))) =>
          /\ c_pc = "raised"
          /\ c_out.error \in {NoChoicesError, NoContentError}

\* C27: call_greenpt_chat sends at most max_retries + 1 requests, one at a
\* time, and sends another one only after a time-out or a request error while
\* budget remains; without an API key it fails before any request is sent and
\* never retries; the text it returns is non-empty and trimmed; a response
\* with no choices or no content fails with an error.
C27_ChatContract ==
    /\ []ChatState
    /\ [][(c_pc \in {"json", "returned", "raised"}) => c_requests' = c_requests]_vars

C27_Witness ==
    /\ c_pc = "returned"
    /\ c_requests = <<"Timeout", "HTTPError", "ok">>
    /\ c_sleeps = <<5, 4>>
    /\ c_response # NotJson /\ ~NoChoices(c_response)
    /\ Head(c_response.choices.items).message
         = [k |-> "dict", content |-> Str(<<"", "hi", "">>)]
    /\ c_out.text = Str(<<"hi">>)

C27_WitnessMissingKey ==
    /\ c_pc = "raised" /\ ~c_key /\ c_max_retries = MaxChatRetries
    /\ c_requests = <<>>

C27_WitnessNoContent ==
    /\ c_pc = "raised"
    /\ c_response # None /\ c_response # NotJson
    /\ NoContent(c_response)
    /\ c_out.error = NoContentError

C27_WitnessFallback ==
    /\ c_pc = "returned"
    /\ c_response # NotJson /\ ~NoChoices(c_response)
    /\ Head(c_response.choices.items).message = None
    /\ c_out.text = Str(<<"sum">>)

----------------------------------------------------------------------------
(* Properties of generate_build_plan, continued *)

\* C23: a failure of the chat call during any attempt of generate_build_plan
\* (missing credential, HTTP error, network or time-out error, empty content)
\* reaches the caller at once and as it is: no further attempt is made, the
\* failure is not turned into the build-plan error and is not recorded as a
\* parse failure, even when retry budget remains.
C23_ChatFailurePropagates ==
    /\ [][(g_pc = "chat" /\ g_replies' = g_replies) =>
            /\ g_pc' = "raised"
            /\ g_out' \in {[outcome |-> "raise", error |-> e] : e \in ChatFailures}
            /\ UNCHANGED <<attempt, last_error, last_raw, g_prompts, g_augmented>>]_vars
    /\ [][g_pc = "raised" => UNCHANGED genVars]_vars
    /\ [](g_pc = "raised" /\ Len(g_prompts) = Len(g_replies) + 1 =>
            /\ g_out.error \in ChatFailures
            /\ g_out.error # build_plan_error(max_retries, last_error, last_raw))

C23_Witness ==
    /\ g_pc = "raised"
    /\ max_retries = MaxRetries /\ attempt = 1
    /\ g_replies = <<>> /\ last_error = None
    /\ g_out.error = MissingKeyError

C23_WitnessSecondAttempt ==
    /\ g_pc = "raised"
    /\ max_retries = MaxRetries /\ attempt = 2
    /\ g_replies = <<Str(<<"x">>)>>
    /\ last_raw = Str(<<"x">>)
    /\ g_out.error = NoContentError

----------------------------------------------------------------------------
(* Properties of write_files_from_plan, continued *)

ParentDirsOf(spec) == Prefixes(PathParent(ResolvedPathOf(spec)).parts)

\* C24: when the model call for entry k fails, the failure propagates and the
\* run stops for good: the files of entries 1..k-1 are on disk with their
\* content, the parent directories of entry k exist, entry k's file has not
\* been written or modified, nothing of a later entry is touched, and the
\* callback has been called for exactly the entries 1..k-1.
C24_ModelFailureStops ==
    /\ []((w_pc = "raised" /\ w_error = UpstreamError) =>
            /\ Len(chat_calls) = idx
            /\ chat_calls[idx] = FilePrompt(w_plan[idx])
            /\ Len(created_files) = idx - 1
            /\ write_calls = created_files
            /\ \A j \in 1..(idx - 1) :
                 /\ created_files[j] = ResolvedPathOf(w_plan[j])
                 /\ fs_files[created_files[j].parts] \in Contents
            /\ DOMAIN fs_files = {created_files[j].parts : j \in 1..(idx - 1)}
            /\ Len(mkdir_calls) = idx
            /\ ParentDirsOf(w_plan[idx]) \subseteq fs_dirs
            /\ fs_dirs = Prefixes(PathResolve(PathOf(w_base)).parts)
                           \cup UNION {ParentDirsOf(w_plan[j]) : j \in 1..idx}
            /\ cb_calls = IF w_cb
                          THEN [j \in 1..(idx - 1) |-> <<j, Len(w_plan), w_plan[j]>>]
                          ELSE <<>>)
    /\ [][(w_pc = "generate" /\ w_pc' # "write") =>
            /\ w_pc' = "raised" /\ w_error' = UpstreamError
            /\ UNCHANGED <<fs_files, fs_dirs, created_files, cb_calls, idx>>]_vars
    /\ [][w_pc = "raised" => UNCHANGED writeVars]_vars
    /\ [][w_pc # "write" => fs_files' = fs_files]_vars

\* The call for the second of three entries failed: the first file is there,
\* the directory of the second one too, the callback was called once.
C24_Witness ==
    /\ w_pc = "raised" /\ w_error = UpstreamError
    /\ Len(w_plan) = 3 /\ idx = 2 /\ w_cb
    /\ w_plan[1].path = Str(<<"a.txt">>)
    /\ w_plan[2].path = Str(<<"sub", "b.txt">>)
    /\ w_plan[3].path = Str(<<"a.txt">>)
    /\ fs_files[created_files[1].parts] = "text1"
    /\ Len(cb_calls) = 1

\* The failing entry names the file an earlier entry wrote
C24_WitnessSameFile ==
    /\ w_pc = "raised" /\ w_error = UpstreamError
    /\ idx = 2
    /\ w_plan[1].path = w_plan[2].path
    /\ fs_files[created_files[1].parts] = "text2"

\* Two entries of the plan resolve to the same file
HasDuplicate ==
    \E i, j \in 1..Len(w_plan) :
        i < j /\ ResolvedPathOf(w_plan[i]) = ResolvedPathOf(w_plan[j])

\* C25: entries that resolve to the same file are neither rejected nor
\* deduplicated: a model call is made for each, every write replaces the file
\* with the content generated for the entry being written, so the file ends
\* with the content of the later entry, the returned list holds the path once
\* per entry, and the callback is called once per entry.
C25_DuplicatesLastWins ==
    /\ []((w_pc = "done" /\ HasDuplicate) =>
            /\ Len(chat_calls) = Len(w_plan)
            /\ \A i \in 1..Len(w_plan) : chat_calls[i] = FilePrompt(w_plan[i])
            /\ Len(created_files) = Len(w_plan)
            /\ \A i \in 1..Len(w_plan) : created_files[i] = ResolvedPathOf(w_plan[i])
            /\ write_calls = created_files
            /\ w_cb => /\ Len(cb_calls) = Len(w_plan)
                       /\ \A i \in 1..Len(w_plan) : cb_calls[i][1] = i
            /\ fs_files[Last(created_files).parts] = content)
    /\ [][(w_pc = "write" /\ target_path.parts \in DOMAIN fs_files) =>
            /\ w_pc' = "progress"
            /\ fs_files'[target_path.parts] = content
            /\ created_files' = Append(created_files, target_path)
            /\ write_calls' = Append(write_calls, target_path)]_vars
    /\ [][(w_pc = "generate" /\ w_pc' = "write") => Len(chat_calls') = idx]_vars
    /\ [][w_pc # "write" => fs_files' = fs_files]_vars

\* A completed run whose two entries name the same file
C25_Witness ==
    /\ w_pc = "done" /\ w_cb
    /\ Len(w_plan) = 2
    /\ w_plan[1].path = Str(<<"sub", "b.txt">>)
    /\ w_plan[2] = w_plan[1]
    /\ created_files[1] = created_files[2]
    /\ fs_files[created_files[1].parts] = "text2"
    /\ Len(chat_calls) = 2 /\ Len(cb_calls) = 2

\* The second entry is about to replace what the first one wrote
C25_WitnessOverwrite ==
    /\ w_pc = "write" /\ idx = 2
    /\ target_path.parts \in DOMAIN fs_files
    /\ fs_files[target_path.parts] = "text1"
    /\ content = "text2"

\* C26: generate_build_plan has two kinds of outcome of its own: it returns a
\* non-empty plan whose every entry is a mapping, or it fails with the
\* build-plan error after all its attempts; an array holding an element that
\* is no mapping is never returned and causes no other kind of error.
C26_PlanOfMappingsOrBuildPlanError ==
    /\ g_pc = "returned" =>
          /\ g_out.plan # <<>>
          /\ \A i \in 1..Len(g_out.plan) : g_out.plan[i].k = "dict"
    /\ (g_pc = "raised" /\ Len(g_prompts) = Len(g_replies)) =>
          /\ attempt = max_retries + 1
          /\ g_out.error = build_plan_error(max_retries, last_error, last_raw)

\* The two ways an array with a number in it gets through
NonMappingReturned ==
    /\ g_pc = "returned"
    /\ \E i \in 1..Len(g_out.plan) : g_out.plan[i].k # "dict"

NonMappingCrashes ==
    /\ g_pc = "raised" /\ g_out.error = AttributeError
    /\ attempt <= max_retries

----------------------------------------------------------------------------
(* Properties of ensure_dockerfile_entry, continued *)

\* C28: the Plan Augmenter is a pure function of its argument: when it
\* synthesizes a Dockerfile entry, the plan object the caller passed in keeps
\* its length and its entries, and only the returned plan has the extra entry.
C28_CallerPlanUntouched ==
    (a_pc = "once" /\ Len(a_once) = Len(a_input) + 1) => a_plan = a_input

\* The caller's list after a call that synthesized the entry
CallerPlanGrew ==
    /\ a_pc = "once"
    /\ a_input = <<FileSpec(Str(<<"README.md">>), Str(<<"docs">>), Str(<<"x">>), Str(<<"y">>))>>
    /\ Len(a_plan) = 2
    /\ a_plan = a_once

----------------------------------------------------------------------------
(* Properties of sanitize_project_slug *)

SlugAlphabet ==
    {"a", "b", "-", "_"} \cup {default_slug[i] : i \in 1..Len(default_slug)}

\* The slug is non-empty, within the limit and made of lowercase letters,
\* digits, - and _
SlugWellFormed ==
    reruns >= 1 =>
        /\ active_project # <<>>
        /\ Len(active_project) <= slug_limit
        /\ \A i \in 1..Len(active_project) : active_project[i] \in SlugAlphabet

\* C29: sanitize_project_slug is total and idempotent: for every name the
\* result is non-empty, at most 60 characters long and made only of lowercase
\* alphanumerics, - and _, and applying the function to the result gives the
\* same slug, so a rerun never switches to another project key.
C29_SlugIdempotent ==
    /\ SlugWellFormed
    /\ reruns >= 2 => active_project = first_slug

\* A name of 61 characters whose slug is cut right after a hyphen
SlugChangesOnRerun ==
    /\ reruns = 2
    /\ Len(first_slug) = slug_limit
    /\ Last(first_slug) = "-"
    /\ Len(active_project) = slug_limit - 1

----------------------------------------------------------------------------
(* Properties of the auto-build *)

AllStages == <<"plan", "mkdir", "write", "package">>

\* C30: the last_build record of a project is written only after build-plan
\* generation, the materialization of every file and packaging have all
\* succeeded, in that order; when one of them fails, last_build keeps the
\* value it had before the build and the build is not resumed.
C30_LastBuildAfterSuccess ==
    /\ [][last_build' # last_build =>
            /\ ab_steps = AllStages
            /\ ab_error = None
            /\ last_build' = [plan |-> ab_plan, project_dir |-> ab_dir,
                              zip_name |-> AutoZipName(ab_dir)]]_vars
    /\ [](IsPrefix(ab_steps, AllStages))
    /\ [](ab_pc = "failed" =>
            /\ last_build = ab_prev
            /\ ab_steps # AllStages
            /\ ab_error # None)
    /\ [][ab_pc = "failed" => (ab_pc' = "plan" /\ ab_steps' = <<>> /\ ab_runs' = ab_runs + 1)]_vars
    /\ [](ab_pc = "shown" =>
            /\ ab_steps = AllStages
            /\ last_build.project_dir = ab_dir /\ last_build.plan = ab_plan)

\* The second build of the session failed while writing files: the record is
\* still the one of the first build, and the directory of the second exists.
C30_Witness ==
    /\ ab_pc = "failed" /\ ab_runs = 2
    /\ ab_steps = <<"plan", "mkdir">>
    /\ ab_error = [shown |-> "Auto-build failed", error |-> UpstreamError]
    /\ last_build # None
    /\ last_build.project_dir # ab_dir
    /\ ab_dir \in ab_dirs

C30_WitnessRecorded ==
    /\ ab_pc = "shown" /\ ab_runs = 2
    /\ ab_prev # None /\ ab_prev # last_build

====
